----------------------- MODULE FrameCommunication_proofs -----------------------
(***************************************************************************)
(* Proofs about the communication between windows, for all windows,        *)
(* requests and numbers of responses, and whatever events may happen.      *)
(***************************************************************************)
EXTENDS FrameCommunication, FiniteSetTheorems, SequenceTheorems, TLAPS

\* A content is in at most one place: nowhere yet, on its way to the repository, in
\* it, on its way to the window, or handled.
Tracked ==
  \A m \in Message :
    /\ posted[m] = Null =>
         /\ m \notin storing \cup stored
         /\ copies[m] = 0 /\ retrievals[m] = 0 /\ replies[m] = 0 /\ handled[m] = 0
    /\ m \in storing \cup stored => handled[m] = 0 /\ replies[m] = 0
    /\ m \in storing => m \notin stored
    /\ handled[m] + replies[m] <= 1

\* The responses to r that were posted are the first k.
Numbered(r, k) ==
  /\ k \in 0..MaxResponses
  /\ \A n \in 1..MaxResponses : posted[<<r, n>>] # Null <=> n <= k

\* How a request, its callback, its listener and its responses hang together.
Linked ==
  \A r \in Request :
    /\ posted[<<r, 0>>] # Null <=> outcome[r] # "unsent"
    /\ r \in callbacks => /\ outcome[r] # "unsent"
                          /\ Kind[r] # "promise" => outcome[r] = "waiting"
    /\ r \in atWork => handled[<<r, 0>>] > 0
    /\ \E k \in 0..MaxResponses : Numbered(r, k)
    /\ \A n \in 1..MaxResponses : posted[<<r, n>>] # Null => handled[<<r, 0>>] > 0

Inv == FrameTypeOK /\ Tracked /\ Linked

USE DEF RequestMessage, ResponseMessage

LEMMA MessageFacts ==
  /\ Message = Request \X (0..MaxResponses)
  /\ MaxResponses \in Nat /\ MaxResponses >= 2
  /\ \A r \in Request : <<r, 0>> \in Message
  /\ \A r \in Request, n \in 1..MaxResponses : <<r, n>> \in Message
  /\ \A m \in Message : m[1] \in Request /\ m[2] \in 0..MaxResponses /\ m = <<m[1], m[2]>>
  /\ \A m \in Message : m[2] # 0 => m[2] \in 1..MaxResponses
  /\ Null \notin Content
  /\ Content = {"request", "value", "nothing", "error"}
BY CommunicationAssumption, MessageAssumption

\* The number of responses posted is what the code counts.
LEMMA CountResponses ==
  ASSUME NEW r \in Request, NEW k, Numbered(r, k)
  PROVE  ResponsesPosted(r) = k
<1>1. {n \in 1..MaxResponses : posted[<<r, n>>] # Null} = 1..k
  BY MessageFacts DEF Numbered
<1>2. Cardinality(1..k) = k
  BY FS_Interval DEF Numbered
<1> QED BY <1>1, <1>2 DEF ResponsesPosted

THEOREM InitEstablishesInv == FrameInit => Inv
<1> SUFFICES ASSUME FrameInit PROVE Inv
  OBVIOUS
<1> USE DEF FrameInit, TransportInit
<1>1. FrameTypeOK
  BY MessageFacts, EmptySeq DEF FrameTypeOK, TransportTypeOK
<1>2. Tracked
  BY DEF Tracked
<1>3. Linked
  <2> SUFFICES ASSUME NEW r \in Request PROVE Numbered(r, 0) /\ posted[<<r, 0>>] = Null
    BY MessageFacts DEF Linked, Numbered
  <2> QED BY MessageFacts DEF Numbered
<1> QED BY <1>1, <1>2, <1>3 DEF Inv

-----------------------------------------------------------------------------
(* Posting.                                                                *)

\* What posting fresh messages does, whoever posts them.
LEMMA PostFacts ==
  ASSUME Inv, NEW ms \in SUBSET Message, NEW content \in [ms -> Content],
         \A m \in ms : posted[m] = Null,
         Post(ms, content), UNCHANGED <<stored, retrievals>>,
         \A m \in Message : replies'[m] \in Nat /\ handled'[m] \in Nat,
         \A m \in Message : handled'[m] + replies'[m] = handled[m] + replies[m],
         \A m \in Message : handled'[m] >= handled[m]
  PROVE  /\ posted' \in [Message -> Content \cup {Null}]
         /\ storing' \subseteq Message
         /\ copies' \in [Message -> Nat]
         /\ \A m \in Message : posted'[m] # Null <=> posted[m] # Null \/ m \in ms
         /\ Tracked'
<1> USE MessageFacts
<1>1. /\ posted' \in [Message -> Content \cup {Null}]
      /\ storing' \subseteq Message
      /\ copies' \in [Message -> Nat]
  BY DEF Post, Inv, FrameTypeOK, TransportTypeOK
<1>2. \A m \in Message : posted'[m] # Null <=> posted[m] # Null \/ m \in ms
  BY DEF Post
<1>3. ASSUME NEW m \in Message
      PROVE  /\ posted'[m] = Null =>
                  /\ m \notin storing' \cup stored'
                  /\ copies'[m] = 0 /\ retrievals'[m] = 0 /\ replies'[m] = 0 /\ handled'[m] = 0
             /\ m \in storing' \cup stored' => handled'[m] = 0 /\ replies'[m] = 0
             /\ m \in storing' => m \notin stored'
             /\ handled'[m] + replies'[m] <= 1
  <2>1. handled[m] \in Nat /\ replies[m] \in Nat
    BY DEF Inv, FrameTypeOK, TransportTypeOK
  <2>2. CASE m \in ms
    <3>1. posted[m] = Null /\ handled[m] = 0 /\ replies[m] = 0 /\ m \notin stored
      BY <2>2 DEF Inv, Tracked
    <3>2. handled'[m] = 0 /\ replies'[m] = 0
      BY <3>1
    <3> QED BY <1>2, <2>2, <3>1, <3>2
  <2>3. CASE m \notin ms
    BY <1>2, <2>1, <2>3 DEF Post, Inv, Tracked
  <2> QED BY <2>2, <2>3
<1> QED BY <1>1, <1>2, <1>3 DEF Tracked

\* A response callback posts the next responses.
LEMMA RespondFacts ==
  ASSUME Inv, NEW r \in Request, NEW k \in Nat, Numbered(r, k),
         NEW answers \in Seq(Content), k + Len(answers) <= MaxResponses,
         Respond(r, answers)
  PROVE  \E ms \in SUBSET Message : \E content \in [ms -> Content] :
           /\ \A m : m \in ms <=> \E i \in 1..Len(answers) : m = <<r, k + i>>
           /\ \A m \in ms : posted[m] = Null
           /\ Post(ms, content)
<1> USE MessageFacts
<1>1. ResponsesPosted(r) = k
  BY CountResponses
<1> DEFINE new == {<<r, k + i>> : i \in 1..Len(answers)}
           content == [m \in new |-> answers[m[2] - k]]
<1>2. k \in Nat /\ Len(answers) \in Nat
  BY LenProperties DEF Numbered
<1>3. \A i \in 1..Len(answers) : k + i \in 1..MaxResponses
  BY <1>2
<1>4. new \in SUBSET Message
  BY <1>3
<1>5. \A m \in new : posted[m] = Null
  BY <1>2, <1>3 DEF Numbered
<1>6. content \in [new -> Content]
  <2> SUFFICES ASSUME NEW m \in new PROVE answers[m[2] - k] \in Content
    OBVIOUS
  <2>1. PICK i \in 1..Len(answers) : m = <<r, k + i>>
    OBVIOUS
  <2>2. m[2] - k = i
    BY <2>1, <1>2
  <2> QED BY <2>2, ElementOfSeq
<1>7. Post(new, content)
  BY <1>1 DEF Respond
<1> QED BY <1>4, <1>5, <1>6, <1>7

\* Receiving a message, which is one that was posted and not handled before.
LEMMA ReceiveFacts ==
  ASSUME Inv, NEW m \in Message, Receive(m)
  PROVE  /\ posted[m] # Null /\ handled[m] = 0 /\ replies[m] = 1
         /\ m \notin storing \cup stored
         /\ handled' \in [Message -> Nat] /\ replies' \in [Message -> Nat]
         /\ handled'[m] = 1 /\ replies'[m] = 0
         /\ \A o \in Message : o # m => handled'[o] = handled[o] /\ replies'[o] = replies[o]
         /\ \A o \in Message : handled'[o] + replies'[o] = handled[o] + replies[o]
         /\ \A o \in Message : handled'[o] >= handled[o]
<1>1. handled \in [Message -> Nat] /\ replies \in [Message -> Nat] /\ replies[m] > 0
  BY DEF Inv, FrameTypeOK, TransportTypeOK, Receive
<1>2. handled[m] + replies[m] <= 1 /\ posted[m] # Null /\ m \notin storing \cup stored
  BY <1>1 DEF Inv, Tracked
<1>3. handled[m] = 0 /\ replies[m] = 1
  BY <1>1, <1>2
<1> QED BY <1>1, <1>2, <1>3 DEF Receive

\* A listener is called and responds.
LEMMA ServeFacts ==
  ASSUME Inv, NEW r \in Request, ReceiveRequest(r),
         NEW answers \in Seq(Content), Len(answers) <= 2, Respond(r, answers)
  PROVE  /\ posted' \in [Message -> Content \cup {Null}]
         /\ storing' \subseteq Message
         /\ copies' \in [Message -> Nat]
         /\ handled' \in [Message -> Nat]
         /\ replies' \in [Message -> Nat]
         /\ handled'[<<r, 0>>] > 0
         /\ \A m \in Message : handled'[m] >= handled[m]
         /\ Tracked'
         /\ Numbered(r, Len(answers))'
         /\ \A m \in Message : m[1] # r \/ m[2] = 0 => (posted'[m] # Null <=> posted[m] # Null)
         /\ \A n \in 1..Len(answers) :
              /\ <<r, n>> \in storing' /\ copies'[<<r, n>>] = 1
<1> USE MessageFacts
<1>1. <<r, 0>> \in Message /\ Receive(<<r, 0>>)
  BY DEF ReceiveRequest
<1>2. /\ handled[<<r, 0>>] = 0
      /\ handled' \in [Message -> Nat] /\ replies' \in [Message -> Nat]
      /\ handled'[<<r, 0>>] = 1
      /\ \A o \in Message : handled'[o] + replies'[o] = handled[o] + replies[o]
      /\ \A o \in Message : handled'[o] >= handled[o]
  BY <1>1, ReceiveFacts
<1>3. Numbered(r, 0)
  <2>1. \A n \in 1..MaxResponses : posted[<<r, n>>] = Null
    BY <1>2 DEF Inv, Linked
  <2> QED BY <2>1 DEF Numbered
<1>4. Len(answers) \in Nat
  BY LenProperties
<1>11. PICK ms \in SUBSET Message : \E content \in [ms -> Content] :
         /\ \A m : m \in ms <=> \E i \in 1..Len(answers) : m = <<r, 0 + i>>
         /\ \A m \in ms : posted[m] = Null
         /\ Post(ms, content)
  <2>1. PICK k \in Nat : k = 0 /\ Numbered(r, k) /\ k + Len(answers) <= MaxResponses
    BY <1>3, <1>4
  <2>2. \E ms \in SUBSET Message : \E content \in [ms -> Content] :
          /\ \A m : m \in ms <=> \E i \in 1..Len(answers) : m = <<r, k + i>>
          /\ \A m \in ms : posted[m] = Null
          /\ Post(ms, content)
    <3> HIDE MessageFacts
    <3> QED BY <2>1, RespondFacts, Zenon
  <2> QED BY <2>1, <2>2
<1>5. PICK content \in [ms -> Content] :
        /\ \A m : m \in ms <=> \E i \in 1..Len(answers) : m = <<r, 0 + i>>
        /\ \A m \in ms : posted[m] = Null
        /\ Post(ms, content)
  BY <1>11
<1>6. UNCHANGED <<stored, retrievals>>
  BY DEF ReceiveRequest
<1>7. /\ posted' \in [Message -> Content \cup {Null}]
      /\ storing' \subseteq Message
      /\ copies' \in [Message -> Nat]
      /\ \A m \in Message : posted'[m] # Null <=> posted[m] # Null \/ m \in ms
      /\ Tracked'
  BY <1>2, <1>5, <1>6, PostFacts
<1>8. Numbered(r, Len(answers))'
  <2>1. \A n \in 1..MaxResponses : <<r, n>> \in ms <=> n <= Len(answers)
    BY <1>4, <1>5
  <2>2. \A n \in 1..MaxResponses : posted'[<<r, n>>] # Null <=> n <= Len(answers)
    BY <1>3, <1>7, <2>1 DEF Numbered
  <2> QED BY <1>4, <2>2 DEF Numbered
<1>9. \A m \in Message : m[1] # r \/ m[2] = 0 => (posted'[m] # Null <=> posted[m] # Null)
  <2>1. \A m \in ms : m[1] = r /\ m[2] # 0
    BY <1>4, <1>5
  <2> QED BY <1>7, <2>1
<1>10. ASSUME NEW n \in 1..Len(answers)
       PROVE  <<r, n>> \in storing' /\ copies'[<<r, n>>] = 1
  <2>1. <<r, n>> \in ms /\ <<r, n>> \in Message
    BY <1>4, <1>5
  <2>2. copies[<<r, n>>] = 0
    BY <1>5, <2>1 DEF Inv, Tracked
  <2> QED BY <1>5, <2>1, <2>2 DEF Post
<1> QED BY <1>2, <1>7, <1>8, <1>9, <1>10

-----------------------------------------------------------------------------
(* The invariant is inductive.                                             *)

\* What a listener leaves behind.
LEMMA ServeInv ==
  ASSUME Inv, NEW r \in Request, ReceiveRequest(r),
         NEW answers \in Seq(Content), Len(answers) <= 2, Respond(r, answers),
         atWork' \in {atWork, atWork \cup {r}},
         resolution' \in [Request -> {"value", "nothing", Null}]
  PROVE  Inv'
<1> USE MessageFacts
<1>1. UNCHANGED <<script, stored, stale, retrievals, callbacks, outcome, given>>
  BY DEF ReceiveRequest, callers
<1>2. FrameTypeOK'
  BY <1>1, ServeFacts DEF Inv, FrameTypeOK, TransportTypeOK
<1>3. Tracked'
  BY ServeFacts
<1>4. Linked'
  <2> SUFFICES ASSUME NEW q \in Request
               PROVE  /\ posted'[<<q, 0>>] # Null <=> outcome'[q] # "unsent"
                      /\ q \in callbacks' => /\ outcome'[q] # "unsent"
                                             /\ Kind[q] # "promise" => outcome'[q] = "waiting"
                      /\ q \in atWork' => handled'[<<q, 0>>] > 0
                      /\ \E k \in 0..MaxResponses : Numbered(q, k)'
                      /\ \A n \in 1..MaxResponses : posted'[<<q, n>>] # Null => handled'[<<q, 0>>] > 0
    BY Zenon DEF Linked
  <2>1. posted'[<<q, 0>>] # Null <=> outcome'[q] # "unsent"
    BY <1>1, ServeFacts DEF Inv, Linked
  <2>2. q \in callbacks' => /\ outcome'[q] # "unsent"
                            /\ Kind[q] # "promise" => outcome'[q] = "waiting"
    BY <1>1 DEF Inv, Linked
  <2>3. handled[<<q, 0>>] > 0 => handled'[<<q, 0>>] > 0
    <3>1. handled \in [Message -> Nat]
      BY DEF Inv, FrameTypeOK, TransportTypeOK
    <3>2. handled' \in [Message -> Nat] /\ handled'[<<q, 0>>] >= handled[<<q, 0>>]
      BY ServeFacts
    <3> QED BY <3>1, <3>2
  <2>4. handled'[<<r, 0>>] > 0
    BY ServeFacts
  <2>5. q \in atWork' => handled'[<<q, 0>>] > 0
    BY <2>3, <2>4 DEF Inv, Linked
  <2>6. CASE q = r
    <3>1. Numbered(r, Len(answers))' /\ Len(answers) \in Nat
      BY ServeFacts, LenProperties
    <3>2. \E k \in 0..MaxResponses : Numbered(q, k)'
      BY <2>6, <3>1 DEF Numbered
    <3> QED BY <2>1, <2>2, <2>4, <2>5, <2>6, <3>2
  <2>7. CASE q # r
    <3>1. \A n \in 1..MaxResponses : posted'[<<q, n>>] # Null <=> posted[<<q, n>>] # Null
      BY <2>7, ServeFacts
    <3>2. PICK k \in 0..MaxResponses : Numbered(q, k)
      BY DEF Inv, Linked
    <3>3. Numbered(q, k)'
      BY <3>1, <3>2 DEF Numbered
    <3>4. \A n \in 1..MaxResponses : posted'[<<q, n>>] # Null => handled'[<<q, 0>>] > 0
      BY <2>3, <3>1 DEF Inv, Linked
    <3> QED BY <2>1, <2>2, <2>5, <3>3, <3>4
  <2> QED BY <2>6, <2>7
<1> QED BY <1>2, <1>3, <1>4 DEF Inv

\* A step that posts nothing and keeps what requests have to do with each other.
KeepsLinks ==
  /\ posted' = posted
  /\ \A m \in Message : handled[m] > 0 => handled'[m] > 0
  /\ atWork' \subseteq atWork
  /\ callbacks' \subseteq callbacks
  /\ \A r \in Request : outcome'[r] # "unsent" <=> outcome[r] # "unsent"
  /\ \A r \in callbacks' : Kind[r] # "promise" => outcome'[r] = "waiting"

LEMMA LinkedUnposted == Inv /\ KeepsLinks => Linked'
<1> SUFFICES ASSUME Inv, KeepsLinks PROVE Linked'
  OBVIOUS
<1> USE DEF KeepsLinks
<1> USE MessageFacts
<1> SUFFICES ASSUME NEW q \in Request
             PROVE  /\ posted'[<<q, 0>>] # Null <=> outcome'[q] # "unsent"
                    /\ q \in callbacks' => /\ outcome'[q] # "unsent"
                                           /\ Kind[q] # "promise" => outcome'[q] = "waiting"
                    /\ q \in atWork' => handled'[<<q, 0>>] > 0
                    /\ \E k \in 0..MaxResponses : Numbered(q, k)'
                    /\ \A n \in 1..MaxResponses : posted'[<<q, n>>] # Null => handled'[<<q, 0>>] > 0
  BY Zenon DEF Linked
<1>1. PICK k \in 0..MaxResponses : Numbered(q, k)
  BY DEF Inv, Linked
<1>2. Numbered(q, k)'
  BY <1>1 DEF Numbered
<1> QED BY <1>2 DEF Inv, Linked

\* A step of a caller or a listener that leaves the messages alone.
LEMMA SameTransport ==
  ASSUME Inv, UNCHANGED <<script, transport, handled>>
  PROVE  TransportTypeOK' /\ Tracked'
<1>1. TransportTypeOK'
  BY DEF Inv, FrameTypeOK, TransportTypeOK, transport
<1>2. Tracked'
  BY DEF Inv, Tracked, transport
<1> QED BY <1>1, <1>2

LEMMA InvStep == Inv /\ [FrameNext]_vars => Inv'
<1> SUFFICES ASSUME Inv, [FrameNext]_vars PROVE Inv'
  OBVIOUS
<1> USE MessageFacts
<1>1. CASE UNCHANGED vars
  <2>3. TransportTypeOK' /\ Tracked'
    BY <1>1, SameTransport DEF vars
  <2>1. FrameTypeOK' /\ Tracked'
    BY <1>1, <2>3 DEF Inv, vars, callers, listeners, FrameTypeOK
  <2>2. KeepsLinks
    BY <1>1 DEF KeepsLinks, Inv, vars, transport, callers, listeners, FrameTypeOK, TransportTypeOK, Linked
  <2> QED BY <2>1, <2>2, LinkedUnposted DEF Inv
\* The transport carries a message on.
<1>2. ASSUME NEW m \in Message, Carry(m) \/ GrowStale(m) \/ Replay(m),
             UNCHANGED <<callers, listeners>>
      PROVE  Inv'
  <2>1. UNCHANGED <<posted, handled>>
    BY <1>2 DEF Carry, StoreContent, ReceiveIdentifier, PopContent, GrowStale, Replay
  <2>2. KeepsLinks
    BY <1>2, <2>1 DEF KeepsLinks, Inv, FrameTypeOK, TransportTypeOK, callers, listeners, Linked
  <2>3. Linked'
    BY <2>2, LinkedUnposted
  <2>4. TransportTypeOK' /\ Tracked'
    <3> USE DEF Inv, FrameTypeOK, TransportTypeOK
    <3>1. CASE StoreContent(m)
      BY <3>1 DEF StoreContent, Tracked
    <3>2. CASE ReceiveIdentifier(m)
      <4>1. TransportTypeOK'
        BY <3>2 DEF ReceiveIdentifier
      <4>2. Tracked'
        BY <3>2 DEF ReceiveIdentifier, Tracked
      <4> QED BY <4>1, <4>2
    <3>3. CASE PopContent(m)
      <4>1. /\ replies' = [replies EXCEPT ![m] = @ + 1] /\ m \in stored
            \/ replies' = replies
        BY <3>3 DEF PopContent
      <4>2. /\ retrievals[m] > 0 /\ retrievals' = [retrievals EXCEPT ![m] = @ - 1]
            /\ stored' = stored \ {m} /\ stale' = stale \ {m}
            /\ UNCHANGED <<script, posted, storing, copies, handled>>
        BY <3>3 DEF PopContent
      <4>5. retrievals[m] - 1 \in Nat
        BY <4>2
      <4>6. replies' \in [Message -> Nat] /\ retrievals' \in [Message -> Nat]
        <5>1. replies \in [Message -> Nat] /\ retrievals \in [Message -> Nat]
          OBVIOUS
        <5>2. replies[m] + 1 \in Nat
          BY <5>1
        <5> HIDE DEF Inv, FrameTypeOK, TransportTypeOK
        <5>3. replies' \in [Message -> Nat]
          <6>1. CASE replies' = [replies EXCEPT ![m] = @ + 1]
            BY <5>1, <5>2, <6>1
          <6> QED BY <4>1, <5>1, <6>1
        <5>4. retrievals' \in [Message -> Nat]
          BY <4>2, <4>5, <5>1
        <5> QED BY <5>3, <5>4
      <4>3. TransportTypeOK'
        BY <4>2, <4>6
      <4>4. ASSUME NEW o \in Message
            PROVE  /\ posted'[o] = Null =>
                        /\ o \notin storing' \cup stored'
                        /\ copies'[o] = 0 /\ retrievals'[o] = 0 /\ replies'[o] = 0 /\ handled'[o] = 0
                   /\ o \in storing' \cup stored' => handled'[o] = 0 /\ replies'[o] = 0
                   /\ o \in storing' => o \notin stored'
                   /\ handled'[o] + replies'[o] <= 1
        <5>1. CASE o = m
          BY <4>1, <4>2, <4>6, <5>1 DEF Tracked
        <5>2. CASE o # m
          <6>1. replies'[o] = replies[o] /\ retrievals'[o] = retrievals[o]
            BY <4>1, <4>2, <5>2
          <6> QED BY <4>2, <5>2, <6>1 DEF Tracked
        <5> QED BY <5>1, <5>2
      <4>7. Tracked'
        BY <4>4 DEF Tracked
      <4> QED BY <4>3, <4>7
    <3>4. CASE GrowStale(m)
      BY <3>4 DEF GrowStale, Tracked
    <3>5. CASE Replay(m)
      <4>1. /\ copies' = [copies EXCEPT ![m] = @ + 1]
            /\ posted[m] # Null
            /\ UNCHANGED <<script, posted, storing, stored, stale, retrievals, replies, handled>>
        BY <3>5 DEF Replay
      <4>2. TransportTypeOK'
        <5>1. copies' \in [Message -> Nat]
          BY <4>1
        <5> QED BY <4>1, <5>1
      <4>3. Tracked'
        BY <4>1 DEF Tracked
      <4> QED BY <4>2, <4>3
    <3> QED BY <1>2, <3>1, <3>2, <3>3, <3>4, <3>5 DEF Carry
  <2> QED BY <1>2, <2>3, <2>4 DEF Inv, FrameTypeOK, callers, listeners
<1>3. ASSUME NEW m \in Message, HandleResponse(m)
      PROVE  Inv'
  <2> DEFINE r == m[1]
  <2>1. Receive(m) /\ UNCHANGED <<script, posted, storing, stored, stale, copies, retrievals, listeners>>
    BY <1>3 DEF HandleResponse
  <2>2. /\ callbacks' \subseteq callbacks
        /\ given' \in [Request -> Seq(Message)]
        /\ \/ outcome' = outcome
           \/ r \in callbacks /\ Kind[r] # "multiple" /\ outcome' = [outcome EXCEPT ![r] = "answered"]
        /\ r \in callbacks /\ Kind[r] # "multiple" => r \notin callbacks'
    <3>1. CASE r \in callbacks
      <4>1. given \in [Request -> Seq(Message)] /\ r \in Request
        BY DEF Inv, FrameTypeOK
      <4>2. Append(given[r], m) \in Seq(Message)
        BY <4>1, AppendProperties
      <4> QED BY <1>3, <3>1, <4>1, <4>2 DEF HandleResponse
    <3>2. CASE r \notin callbacks
      BY <1>3, <3>2 DEF HandleResponse, Inv, FrameTypeOK, callers
    <3> QED BY <3>1, <3>2
  <2>7. /\ handled' \in [Message -> Nat] /\ replies' \in [Message -> Nat]
        /\ \A o \in Message : handled[o] > 0 => handled'[o] > 0
    <3>1. handled \in [Message -> Nat]
      BY DEF Inv, FrameTypeOK, TransportTypeOK
    <3>2. /\ handled' \in [Message -> Nat] /\ replies' \in [Message -> Nat]
          /\ \A o \in Message : handled'[o] >= handled[o]
      BY <2>1, ReceiveFacts
    <3> QED BY <3>1, <3>2
  <2>3. FrameTypeOK'
    BY <2>1, <2>2, <2>7 DEF Inv, FrameTypeOK, TransportTypeOK, listeners
  <2>4. Tracked'
    BY <2>1, ReceiveFacts DEF Inv, Tracked
  <2>5. /\ \A q \in Request : outcome'[q] # "unsent" <=> outcome[q] # "unsent"
        /\ \A q \in callbacks' : Kind[q] # "promise" => outcome'[q] = "waiting"
    BY <2>2 DEF Inv, FrameTypeOK, Linked
  <2>6. KeepsLinks
    BY <2>1, <2>2, <2>5, <2>7 DEF KeepsLinks, listeners
  <2> QED BY <2>3, <2>4, <2>6, LinkedUnposted DEF Inv
<1>4. ASSUME NEW r \in Request, RefuseRequest(r)
      PROVE  Inv'
  <2>1. <<"nothing">> \in Seq(Content) /\ Len(<<"nothing">>) <= 2
    OBVIOUS
  <2> QED BY <1>4, <2>1, ServeInv DEF RefuseRequest, listeners, Inv, FrameTypeOK
<1>5. ASSUME NEW r \in Request, ServePromise(r)
      PROVE  Inv'
  <2>1. PICK answer \in {"value", "nothing"} : Respond(r, <<answer>>)
    BY <1>5 DEF ServePromise
  <2>2. <<answer>> \in Seq(Content) /\ Len(<<answer>>) <= 2
    BY <2>1
  <2>3. /\ ReceiveRequest(r)
        /\ atWork' \in {atWork, atWork \cup {r}}
        /\ resolution' \in [Request -> {"value", "nothing", Null}]
    <3>1. ReceiveRequest(r)
      BY <1>5 DEF ServePromise
    <3>2. atWork' = atWork \/ atWork' = atWork \cup {r}
      BY <1>5 DEF ServePromise, listeners
    <3>3. \/ resolution' = resolution
          \/ \E resolved \in {"value", "nothing"} : resolution' = [resolution EXCEPT ![r] = resolved]
      BY <1>5 DEF ServePromise, listeners
    <3>4. resolution' \in [Request -> {"value", "nothing", Null}]
      BY <3>3 DEF Inv, FrameTypeOK
    <3> QED BY <3>1, <3>2, <3>4
  <2> QED BY <2>1, <2>2, <2>3, ServeInv
<1>6. ASSUME NEW r \in Request, ServeCallback(r)
      PROVE  Inv'
  <2>1. PICK answers \in {<<>>, <<"error">>, <<"value", "error">>} : Respond(r, answers)
    BY <1>6 DEF ServeCallback
  <2>2. answers \in Seq(Content) /\ Len(answers) <= 2
    <3>1. CASE answers = <<>>
      BY <3>1
    <3>2. CASE answers = <<"error">>
      BY <3>2
    <3>3. CASE answers = <<"value", "error">>
      BY <3>3
    <3> QED BY <2>1, <3>1, <3>2, <3>3
  <2>3. /\ ReceiveRequest(r)
        /\ atWork' \in {atWork, atWork \cup {r}}
        /\ resolution' \in [Request -> {"value", "nothing", Null}]
    BY <1>6 DEF ServeCallback, Inv, FrameTypeOK
  <2> QED BY <2>1, <2>2, <2>3, ServeInv
<1>7. ASSUME NEW w \in Window, Initialize(w)
      PROVE  Inv'
  <2> USE DEF Inv, FrameTypeOK, TransportTypeOK, Initialize, transport, callers, listeners
  <2>1. FrameTypeOK' /\ Tracked'
    BY <1>7 DEF Tracked
  <2>2. KeepsLinks
    BY <1>7 DEF KeepsLinks, Linked
  <2> QED BY <2>1, <2>2, LinkedUnposted
<1>8. ASSUME NEW w \in Window, Reload(w)
      PROVE  Inv'
  <2> USE DEF Inv, FrameTypeOK, TransportTypeOK, Reload, ForgetWindow
  <2>1. FrameTypeOK'
    BY <1>8
  <2>2. Tracked'
    BY <1>8 DEF Tracked
  <2>3. /\ \A q \in Request : outcome'[q] # "unsent" <=> outcome[q] # "unsent"
        /\ \A q \in callbacks' : Kind[q] # "promise" => outcome'[q] = "waiting"
    BY <1>8 DEF Linked
  <2>4. KeepsLinks
    BY <1>8, <2>3 DEF KeepsLinks
  <2> QED BY <2>1, <2>2, <2>4, LinkedUnposted
<1>9. ASSUME NEW r \in Request, SendRequest(r)
      PROVE  Inv'
  <2> DEFINE ms == {<<r, 0>>}
             content == [m \in ms |-> "request"]
  <2>1. posted[<<r, 0>>] = Null
    BY <1>9 DEF SendRequest, Inv, Linked
  <2>2. Post(ms, content) /\ content \in [ms -> Content] /\ ms \in SUBSET Message
    BY <1>9 DEF SendRequest
  <2>3. UNCHANGED <<script, stored, stale, retrievals, replies, handled, given, listeners>>
    BY <1>9 DEF SendRequest
  <2>4. /\ posted' \in [Message -> Content \cup {Null}]
        /\ storing' \subseteq Message
        /\ copies' \in [Message -> Nat]
        /\ \A m \in Message : posted'[m] # Null <=> posted[m] # Null \/ m \in ms
        /\ Tracked'
    <3>1. /\ \A m \in Message : replies'[m] \in Nat /\ handled'[m] \in Nat
          /\ \A m \in Message : handled'[m] + replies'[m] = handled[m] + replies[m]
          /\ \A m \in Message : handled'[m] >= handled[m]
      BY <2>3 DEF Inv, FrameTypeOK, TransportTypeOK
    <3> HIDE DEF ms, content
    <3>2. \A m \in ms : posted[m] = Null
      BY <2>1 DEF ms
    <3> QED BY <2>2, <2>3, <3>1, <3>2, PostFacts
  <2>5. FrameTypeOK'
    BY <1>9, <2>3, <2>4 DEF Inv, FrameTypeOK, TransportTypeOK, listeners, SendRequest
  <2>6. ASSUME NEW q \in Request
        PROVE  /\ posted'[<<q, 0>>] # Null <=> outcome'[q] # "unsent"
               /\ q \in callbacks' => /\ outcome'[q] # "unsent"
                                      /\ Kind[q] # "promise" => outcome'[q] = "waiting"
               /\ q \in atWork' => handled'[<<q, 0>>] > 0
               /\ \E k \in 0..MaxResponses : Numbered(q, k)'
               /\ \A n \in 1..MaxResponses : posted'[<<q, n>>] # Null => handled'[<<q, 0>>] > 0
    <3>1. \A n \in 1..MaxResponses : posted'[<<q, n>>] # Null <=> posted[<<q, n>>] # Null
      BY <2>4
    <3>2. PICK k \in 0..MaxResponses : Numbered(q, k)
      BY DEF Inv, Linked
    <3>3. Numbered(q, k)'
      BY <3>1, <3>2 DEF Numbered
    <3>4. posted'[<<q, 0>>] # Null <=> posted[<<q, 0>>] # Null \/ q = r
      BY <2>4
    <3> QED BY <1>9, <2>3, <3>1, <3>3, <3>4 DEF Inv, FrameTypeOK, Linked, SendRequest, listeners
  <2> QED BY <2>4, <2>5, <2>6, Zenon DEF Inv, Linked
<1>10. ASSUME NEW r \in Request, TimeOut(r)
       PROVE  Inv'
  <2>3. UNCHANGED <<script, transport, handled>>
    BY <1>10 DEF TimeOut
  <2>4. TransportTypeOK' /\ Tracked'
    BY <2>3, SameTransport
  <2> USE DEF Inv, FrameTypeOK, TimeOut, listeners
  <2>1. FrameTypeOK' /\ Tracked'
    BY <1>10, <2>4
  <2>2. KeepsLinks
    BY <1>10 DEF KeepsLinks, Linked, TransportTypeOK, transport
  <2> QED BY <2>1, <2>2, LinkedUnposted
<1>11. ASSUME NEW r \in Request, FinishListener(r)
       PROVE  Inv'
  <2>3. UNCHANGED <<script, transport, handled>>
    BY <1>11 DEF FinishListener
  <2>4. TransportTypeOK' /\ Tracked'
    BY <2>3, SameTransport
  <2> USE DEF Inv, FrameTypeOK, FinishListener, callers
  <2>1. FrameTypeOK' /\ Tracked'
    BY <1>11, <2>4
  <2>2. KeepsLinks
    BY <1>11 DEF KeepsLinks, Linked, TransportTypeOK, transport
  <2> QED BY <2>1, <2>2, LinkedUnposted
<1>12. ASSUME NEW r \in Request, RespondLater(r)
       PROVE  Inv'
  <2>1. PICK k \in 0..MaxResponses : Numbered(r, k)
    BY DEF Inv, Linked
  <2>2. k \in Nat /\ k + 1 <= MaxResponses
    BY <1>12, <2>1, CountResponses DEF RespondLater
  <2>10. PICK answers \in Seq(Content) : Len(answers) = 1 /\ Respond(r, answers)
    <3>1. <<"value">> \in Seq(Content) /\ Len(<<"value">>) = 1
      OBVIOUS
    <3> QED BY <1>12, <3>1, Zenon DEF RespondLater
  <2>3. PICK ms \in SUBSET Message : \E content \in [ms -> Content] :
           /\ \A m : m \in ms <=> \E i \in 1..Len(answers) : m = <<r, k + i>>
           /\ \A m \in ms : posted[m] = Null
           /\ Post(ms, content)
    <3>1. k + Len(answers) <= MaxResponses
      BY <2>2, <2>10
    <3>2. k \in Nat /\ Numbered(r, k)
      BY <2>1, <2>2
    <3>3. Respond(r, answers)
      BY <2>10
    <3> HIDE MessageFacts
    <3> QED BY <3>1, <3>2, <3>3, RespondFacts, ZenonT(60)
  <2>4. PICK content \in [ms -> Content] :
           /\ \A m \in ms : posted[m] = Null
           /\ Post(ms, content)
    BY <2>3
  <2>5. \A m : m \in ms <=> m = <<r, k + 1>>
    BY <2>3, <2>10
  <2>6. UNCHANGED <<script, stored, stale, retrievals, replies, handled, callers, listeners>>
    BY <1>12 DEF RespondLater
  <2>7. /\ posted' \in [Message -> Content \cup {Null}]
        /\ storing' \subseteq Message
        /\ copies' \in [Message -> Nat]
        /\ \A m \in Message : posted'[m] # Null <=> posted[m] # Null \/ m \in ms
        /\ Tracked'
    <3>1. /\ \A m \in Message : replies'[m] \in Nat /\ handled'[m] \in Nat
          /\ \A m \in Message : handled'[m] + replies'[m] = handled[m] + replies[m]
          /\ \A m \in Message : handled'[m] >= handled[m]
      <4>1. handled' = handled /\ replies' = replies
        BY <2>6
      <4>2. handled \in [Message -> Nat] /\ replies \in [Message -> Nat]
        BY DEF Inv, FrameTypeOK, TransportTypeOK
      <4> QED BY <4>1, <4>2
    <3> QED BY <2>4, <2>6, <3>1, PostFacts
  <2>8. FrameTypeOK'
    BY <2>6, <2>7 DEF Inv, FrameTypeOK, TransportTypeOK, listeners, callers
  <2>9. ASSUME NEW q \in Request
        PROVE  /\ posted'[<<q, 0>>] # Null <=> outcome'[q] # "unsent"
               /\ q \in callbacks' => /\ outcome'[q] # "unsent"
                                      /\ Kind[q] # "promise" => outcome'[q] = "waiting"
               /\ q \in atWork' => handled'[<<q, 0>>] > 0
               /\ \E j \in 0..MaxResponses : Numbered(q, j)'
               /\ \A n \in 1..MaxResponses : posted'[<<q, n>>] # Null => handled'[<<q, 0>>] > 0
    <3>1. posted'[<<q, 0>>] # Null <=> posted[<<q, 0>>] # Null
      BY <2>2, <2>5, <2>7
    <3>2. \A n \in 1..MaxResponses :
            posted'[<<q, n>>] # Null <=> posted[<<q, n>>] # Null \/ (q = r /\ n = k + 1)
      BY <2>5, <2>7
    <3>3. \E j \in 0..MaxResponses : Numbered(q, j)'
      <4>1. CASE q = r
        <5>1. Numbered(q, k + 1)'
          BY <2>1, <2>2, <3>2, <4>1 DEF Numbered
        <5> QED BY <2>2, <5>1
      <4>2. CASE q # r
        <5>1. PICK j \in 0..MaxResponses : Numbered(q, j)
          BY DEF Inv, Linked
        <5>2. Numbered(q, j)'
          BY <3>2, <4>2, <5>1 DEF Numbered
        <5> QED BY <5>2
      <4> QED BY <4>1, <4>2
    <3>4. handled[<<r, 0>>] > 0
      BY <1>12 DEF RespondLater, Inv, Linked
    <3>5. \A n \in 1..MaxResponses : posted'[<<q, n>>] # Null => handled'[<<q, 0>>] > 0
      BY <2>6, <3>2, <3>4 DEF Inv, Linked
    <3> QED BY <2>6, <3>1, <3>3, <3>5 DEF Inv, Linked, callers, listeners
  <2> QED BY <2>7, <2>8, <2>9, Zenon DEF Inv, Linked
<1> QED BY <1>1, <1>2, <1>3, <1>4, <1>5, <1>6, <1>7, <1>8, <1>9, <1>10, <1>11, <1>12
        DEF FrameNext, Progress

\* The invariant holds in every reachable state.
LEMMA Invariance == FrameSpec => []Inv
<1>1. FrameInit => Inv
  BY InitEstablishesInv
<1>2. Inv /\ [FrameNext]_vars => Inv'
  BY InvStep
<1> QED BY <1>1, <1>2, PTL DEF FrameSpec

\* Type correctness of the communication and its transport.
THEOREM FrameTypes == FrameSpec => []FrameTypeOK
<1>1. Inv => FrameTypeOK
  BY DEF Inv
<1> QED BY <1>1, Invariance, PTL

\* The listeners of a window are given each message at most once, however often the
\* page replays it, because popContent forgets a content before anything else.
THEOREM FrameHandlesOnce == FrameSpec => []HandledOnce
<1>1. Inv => HandledOnce
  <2> SUFFICES ASSUME Inv, NEW m \in Message PROVE handled[m] <= 1
    BY DEF HandledOnce
  <2>1. handled[m] \in Nat /\ replies[m] \in Nat /\ handled[m] + replies[m] <= 1
    BY DEF Inv, FrameTypeOK, TransportTypeOK, Tracked
  <2> QED BY <2>1
<1> QED BY <1>1, Invariance, PTL

-----------------------------------------------------------------------------
(* Refinement of remote calls.                                             *)

LEMMA InitRefines == FrameInit => Calls!Init
<1> SUFFICES ASSUME FrameInit PROVE Calls!Init
  OBVIOUS
<1>1. {r \in Request : handled[<<r, 0>>] > 0} = {}
  BY MessageFacts DEF FrameInit, TransportInit
<1>2. [r \in Request |-> Len(given[r])] = [r \in Request |-> 0]
  BY DEF FrameInit
<1> QED BY <1>1, <1>2 DEF Calls!Init, FrameInit

\* A listener that is called serves a request that was sent and not served before.
LEMMA ServeRefines ==
  ASSUME Inv, NEW r \in Request, ReceiveRequest(r)
  PROVE  Calls!Serve(r)
<1> USE MessageFacts
<1>1. /\ <<r, 0>> \in Message /\ Receive(<<r, 0>>)
      /\ UNCHANGED <<outcome, given>>
  BY DEF ReceiveRequest, callers
<1>2. /\ posted[<<r, 0>>] # Null /\ handled[<<r, 0>>] = 0 /\ handled'[<<r, 0>>] = 1
      /\ \A o \in Message : o # <<r, 0>> => handled'[o] = handled[o]
  BY <1>1, ReceiveFacts
<1>3. outcome[r] # "unsent"
  BY <1>2 DEF Inv, Linked
<1>4. r \notin {q \in Request : handled[<<q, 0>>] > 0}
  BY <1>2
<1>5. {q \in Request : handled[<<q, 0>>] > 0}' = {q \in Request : handled[<<q, 0>>] > 0} \cup {r}
  <2> SUFFICES ASSUME NEW q \in Request
               PROVE  handled'[<<q, 0>>] > 0 <=> handled[<<q, 0>>] > 0 \/ q = r
    OBVIOUS
  <2>1. CASE q = r
    BY <1>2, <2>1
  <2>2. CASE q # r
    BY <1>2, <2>2
  <2> QED BY <2>1, <2>2
<1>6. [q \in Request |-> Len(given[q])]' = [q \in Request |-> Len(given[q])]
  BY <1>1
<1> QED BY <1>1, <1>3, <1>4, <1>5, <1>6 DEF Calls!Serve

\* A response is an answer to a request that waits for it, or is ignored.
LEMMA ResponseRefines ==
  ASSUME Inv, NEW m \in Message, HandleResponse(m)
  PROVE  Calls!Answer(m[1]) \/ UNCHANGED Calls!vars
<1> USE MessageFacts
<1> DEFINE r == m[1]
<1>1. m[2] \in 1..MaxResponses /\ Receive(m) /\ r \in Request /\ m = <<r, m[2]>>
  BY DEF HandleResponse
<1>2. /\ posted[m] # Null
      /\ \A o \in Message : o # m => handled'[o] = handled[o]
  BY <1>1, ReceiveFacts
<1>3. handled[<<r, 0>>] > 0
  BY <1>1, <1>2 DEF Inv, Linked
<1>4. {q \in Request : handled[<<q, 0>>] > 0}' = {q \in Request : handled[<<q, 0>>] > 0}
  <2>1. ASSUME NEW q \in Request
        PROVE  handled'[<<q, 0>>] = handled[<<q, 0>>]
    <3>1. <<q, 0>> # m
      BY <1>1
    <3>2. <<q, 0>> \in Message
      OBVIOUS
    <3> QED BY <1>2, <3>1, <3>2
  <2> QED BY <2>1
<1>5. CASE r \in callbacks /\ Reaches(r, posted[m])
  <2>1. outcome[r] = "waiting"
    BY <1>1, <1>5 DEF Reaches, Inv, Linked
  <2>2. /\ given' = [given EXCEPT ![r] = Append(@, m)]
        /\ outcome' = IF Kind[r] = "multiple" THEN outcome ELSE [outcome EXCEPT ![r] = "answered"]
    BY <1>5 DEF HandleResponse
  <2>3. [q \in Request |-> Len(given[q])]'
          = [[q \in Request |-> Len(given[q])] EXCEPT ![r] = @ + 1]
    <3>1. given \in [Request -> Seq(Message)]
      BY DEF Inv, FrameTypeOK
    <3>2. Len(Append(given[r], m)) = Len(given[r]) + 1
      BY <1>1, <3>1, AppendProperties
    <3> QED BY <1>1, <2>2, <3>1, <3>2
  <2>4. r \in {q \in Request : Kind[q] = "multiple"} <=> Kind[r] = "multiple"
    BY <1>1
  <2> QED BY <1>1, <1>3, <1>4, <2>1, <2>2, <2>3, <2>4 DEF Calls!Answer
<1>6. CASE ~(r \in callbacks /\ Reaches(r, posted[m]))
  <2>1. UNCHANGED <<given, outcome>>
    BY <1>6 DEF HandleResponse, callers
  <2> QED BY <1>4, <2>1 DEF Calls!vars
<1> QED BY <1>5, <1>6

LEMMA StepRefines == Inv /\ [FrameNext]_vars => [Calls!Next]_Calls!vars
<1> SUFFICES ASSUME Inv, [FrameNext]_vars PROVE Calls!Next \/ UNCHANGED Calls!vars
  BY DEF Calls!vars
<1> USE MessageFacts
\* Steps that change neither outcomes, answers nor what was handled.
<1>1. ASSUME UNCHANGED <<outcome, given, handled>>
      PROVE  UNCHANGED Calls!vars
  BY <1>1 DEF Calls!vars
<1>2. CASE UNCHANGED vars
  BY <1>1, <1>2 DEF vars, callers
<1>3. ASSUME NEW m \in Message, Carry(m) \/ GrowStale(m) \/ Replay(m), UNCHANGED <<callers, listeners>>
      PROVE  UNCHANGED Calls!vars
  BY <1>1, <1>3 DEF Carry, StoreContent, ReceiveIdentifier, PopContent, GrowStale, Replay, callers
<1>4. ASSUME NEW m \in Message, HandleResponse(m)
      PROVE  Calls!Next \/ UNCHANGED Calls!vars
  BY <1>4, ResponseRefines DEF Calls!Next
<1>5. ASSUME NEW r \in Request, RefuseRequest(r) \/ ServePromise(r) \/ ServeCallback(r)
      PROVE  Calls!Next
  <2>1. ReceiveRequest(r)
    BY <1>5 DEF RefuseRequest, ServePromise, ServeCallback
  <2> QED BY <2>1, ServeRefines DEF Calls!Next
<1>6. ASSUME NEW w \in Window, Initialize(w)
      PROVE  UNCHANGED Calls!vars
  BY <1>1, <1>6 DEF Initialize, callers
<1>7. ASSUME NEW w \in Window, Reload(w)
      PROVE  Calls!Next
  <2>1. outcome' = [r \in Request |-> IF Sender[r] = w /\ outcome[r] = "waiting"
                                     THEN "abandoned" ELSE outcome[r]]
    BY <1>7 DEF Reload
  <2>2. UNCHANGED <<handled, given>>
    BY <1>7 DEF Reload
  <2>3. outcome \in [Request -> {"unsent", "waiting", "answered", "timedOut", "abandoned"}]
    BY DEF Inv, FrameTypeOK
  <2>4. outcome' \in [Request -> {"unsent", "waiting", "answered", "timedOut", "abandoned"}]
    BY <2>1, <2>3
  <2>5. \A r \in Request :
          outcome'[r] = outcome[r] \/ (outcome[r] = "waiting" /\ outcome'[r] = "abandoned")
    BY <2>1
  <2>6. Calls!Abandon
    BY <2>2, <2>4, <2>5 DEF Calls!Abandon
  <2> QED BY <2>6 DEF Calls!Next
<1>8. ASSUME NEW r \in Request, SendRequest(r)
      PROVE  Calls!Next
  <2>1. Calls!Call(r)
    BY <1>8 DEF Calls!Call, SendRequest
  <2> QED BY <2>1 DEF Calls!Next
<1>9. ASSUME NEW r \in Request, TimeOut(r)
      PROVE  Calls!Next
  <2>1. Calls!GiveUp(r)
    BY <1>9 DEF Calls!GiveUp, TimeOut
  <2> QED BY <2>1 DEF Calls!Next
<1>10. ASSUME NEW r \in Request, FinishListener(r) \/ RespondLater(r)
       PROVE  UNCHANGED Calls!vars
  BY <1>1, <1>10 DEF FinishListener, RespondLater, callers
<1> QED BY <1>2, <1>3, <1>4, <1>5, <1>6, <1>7, <1>8, <1>9, <1>10 DEF FrameNext, Progress

\* The communication between windows implements remote calls: a request is served
\* at most once, and its caller is answered after that, in time, and once if it
\* expects one answer.
THEOREM FrameImplementsCalls == FrameSpec => RemoteCallSpec
<1>1. FrameInit => Calls!Init
  BY InitRefines
<1>2. Inv /\ [FrameNext]_vars => [Calls!Next]_Calls!vars
  BY StepRefines
<1> QED BY <1>1, <1>2, Invariance, PTL DEF FrameSpec, RemoteCallSpec, Calls!Spec

-----------------------------------------------------------------------------
(* Nothing is lost.                                                         *)

\* Events that lose no message: the page may replay, listeners may be slow.
NothingLost == Event \cap {"overtaken", "stale", "reload", "unready"} = {}

\* Requests are sent between windows that listen.
Listening == \A r \in Request : outcome[r] # "unsent" => Sender[r] \in script /\ Target[r] \in script

\* What was posted is on its way, in the repository, or has been handed out.
Kept == \A m \in Message :
          posted[m] # Null => m \in storing \cup stored \/ replies[m] + handled[m] > 0

\* A request through a promise is responded to when it is handled, and the response
\* removes the callback.
PromisesKept ==
  \A r \in Request : Kind[r] = "promise" =>
    /\ handled[<<r, 0>>] > 0 => posted[<<r, 1>>] # Null
    /\ handled[<<r, 1>>] > 0 => r \notin callbacks

Lossless == stale = {} /\ Listening /\ Kept /\ ContentIsAwaited /\ PromisesKept

LEMMA InitLossless == FrameInit => Lossless
<1> SUFFICES ASSUME FrameInit PROVE Lossless
  OBVIOUS
<1> USE DEF FrameInit, TransportInit
<1>1. stale = {} /\ Listening /\ ContentIsAwaited
  BY DEF Listening, ContentIsAwaited
<1>2. Kept
  BY DEF Kept
<1>3. PromisesKept
  BY MessageFacts DEF PromisesKept
<1> QED BY <1>1, <1>2, <1>3 DEF Lossless

\* Somebody listens wherever a message is posted to.
LEMMA DestinationListens ==
  ASSUME Inv, Listening, NEW m \in Message, posted[m] # Null
  PROVE  Destination[m] \in script
<1>1. PICK r \in Request, n \in 0..MaxResponses : m = <<r, n>>
  BY MessageFacts
<1>2. CASE n = 0
  <2>1. outcome[r] # "unsent" /\ Destination[m] = Target[r]
    BY <1>1, <1>2, CommunicationAssumption DEF Inv, Linked
  <2> QED BY <2>1 DEF Listening
<1>3. CASE n # 0
  <2>1. n \in 1..MaxResponses
    BY <1>3, MessageFacts
  <2>2. handled[<<r, 0>>] > 0
    BY <1>1, <2>1 DEF Inv, Linked
  <2>3. posted[<<r, 0>>] # Null
    BY <2>2, MessageFacts DEF Inv, Tracked
  <2>4. outcome[r] # "unsent" /\ Destination[m] = Sender[r]
    BY <1>1, <2>1, <2>3, CommunicationAssumption DEF Inv, Linked
  <2> QED BY <2>4 DEF Listening
<1> QED BY <1>2, <1>3

\* What is posted is kept, and its identifier goes to those who will ask for it.
LEMMA PostKept ==
  ASSUME Inv, Inv', Kept, ContentIsAwaited, NEW ms, NEW content, Post(ms, content),
         UNCHANGED <<stored, retrievals>>,
         \A m \in Message : handled'[m] + replies'[m] = handled[m] + replies[m]
  PROVE  Kept' /\ ContentIsAwaited'
<1>1. /\ handled \in [Message -> Nat] /\ replies \in [Message -> Nat]
      /\ copies \in [Message -> Nat] /\ retrievals \in [Message -> Nat]
      /\ handled' \in [Message -> Nat] /\ replies' \in [Message -> Nat]
      /\ storing' \cup stored' \subseteq Message
  BY DEF Inv, FrameTypeOK, TransportTypeOK
<1>2. ASSUME NEW m \in Message, posted'[m] # Null
      PROVE  m \in storing' \cup stored' \/ replies'[m] + handled'[m] > 0
  <2>1. CASE m \in ms
    BY <2>1 DEF Post
  <2>2. CASE m \notin ms
    <3>1. m \in storing \cup stored \/ replies[m] + handled[m] > 0
      BY <1>2, <2>2 DEF Post, Kept
    <3> QED BY <1>1, <3>1 DEF Post
  <2> QED BY <2>1, <2>2
<1>3. ASSUME NEW m \in storing' \cup stored'
      PROVE  copies'[m] + retrievals'[m] > 0
  <2>1. m \in Message
    BY <1>1
  <2>2. CASE m \in ms
    BY <1>1, <2>1, <2>2 DEF Post
  <2>3. CASE m \notin ms
    BY <1>1, <2>1, <2>3 DEF Post, ContentIsAwaited
  <2> QED BY <2>2, <2>3
<1> QED BY <1>2, <1>3 DEF Kept, ContentIsAwaited

LEMMA CarriedLossless ==
  ASSUME NothingLost, Inv, Inv', Lossless, NEW m \in Message,
         Carry(m) \/ GrowStale(m) \/ Replay(m), UNCHANGED <<callers, listeners>>
  PROVE  Lossless'
<1>1. UNCHANGED <<script, posted, handled, callbacks, outcome>>
  BY DEF Carry, StoreContent, ReceiveIdentifier, PopContent, GrowStale, Replay, callers
<1>2. Listening' /\ PromisesKept'
  BY <1>1 DEF Lossless, Listening, PromisesKept
<1>3. /\ handled \in [Message -> Nat] /\ replies \in [Message -> Nat]
      /\ copies \in [Message -> Nat] /\ retrievals \in [Message -> Nat]
      /\ storing \cup stored \subseteq Message
  BY DEF Inv, FrameTypeOK, TransportTypeOK
<1>4. stale = {} /\ Kept /\ ContentIsAwaited /\ Listening
  BY DEF Lossless
<1>5. CASE StoreContent(m)
  <2>1. stale' = {} /\ Kept'
    BY <1>4, <1>5 DEF StoreContent, Kept
  <2>2. ContentIsAwaited'
    BY <1>4, <1>5 DEF StoreContent, ContentIsAwaited
  <2> QED BY <1>2, <2>1, <2>2 DEF Lossless
<1>6. CASE ReceiveIdentifier(m)
  <2>1. stale' = {} /\ Kept'
    BY <1>4, <1>6 DEF ReceiveIdentifier, Kept
  <2>2. ASSUME NEW o \in storing' \cup stored'
        PROVE  copies'[o] + retrievals'[o] > 0
    <3>1. o \in storing \cup stored /\ o \in Message /\ copies[o] + retrievals[o] > 0
      BY <1>3, <1>4, <1>6, <2>2 DEF ReceiveIdentifier, ContentIsAwaited
    <3>2. CASE o # m
      BY <1>3, <1>6, <3>1, <3>2 DEF ReceiveIdentifier
    <3>3. CASE o = m
      <4>1. posted[m] # Null
        BY <3>1, <3>3 DEF Inv, Tracked
      <4>2. Destination[m] \in script
        BY <1>4, <4>1, DestinationListens
      <4>3. retrievals'[m] = retrievals[m] + 1 /\ copies'[m] = copies[m] - 1 /\ copies[m] > 0
        BY <1>3, <1>6, <4>2 DEF ReceiveIdentifier
      <4> QED BY <1>3, <3>3, <4>3
    <3> QED BY <3>2, <3>3
  <2> QED BY <1>2, <2>1, <2>2 DEF Lossless, ContentIsAwaited
<1>7. CASE PopContent(m)
  <2>1. /\ m \notin storing /\ retrievals[m] > 0
        /\ retrievals' = [retrievals EXCEPT ![m] = @ - 1]
        /\ stored' = stored \ {m} /\ stale' = {}
        /\ UNCHANGED <<posted, storing, copies, handled>>
    BY <1>4, <1>7 DEF PopContent, NothingLost
  <2>2. replies' = [replies EXCEPT ![m] = IF m \in stored THEN @ + 1 ELSE @]
    BY <1>4, <1>7 DEF PopContent
  <2>3. ASSUME NEW o \in Message, posted'[o] # Null
        PROVE  o \in storing' \cup stored' \/ replies'[o] + handled'[o] > 0
    <3>1. o \in storing \cup stored \/ replies[o] + handled[o] > 0
      BY <1>4, <2>1, <2>3 DEF Kept
    <3>2. CASE o # m
      BY <1>3, <2>1, <2>2, <3>1, <3>2
    <3>3. CASE o = m /\ m \in stored
      <4>1. replies'[m] = replies[m] + 1
        BY <1>3, <2>2, <3>3
      <4> QED BY <1>3, <2>1, <3>3, <4>1
    <3>4. CASE o = m /\ m \notin stored
      <4>1. replies'[m] = replies[m]
        BY <1>3, <2>2, <3>4
      <4> QED BY <1>3, <2>1, <3>1, <3>4, <4>1
    <3> QED BY <3>2, <3>3, <3>4
  <2>4. ASSUME NEW o \in storing' \cup stored'
        PROVE  copies'[o] + retrievals'[o] > 0
    <3>1. o \in storing \cup stored /\ o \in Message /\ o # m
      BY <1>3, <2>1, <2>4
    <3> QED BY <1>3, <1>4, <2>1, <3>1 DEF ContentIsAwaited
  <2> QED BY <1>2, <2>1, <2>3, <2>4 DEF Lossless, Kept, ContentIsAwaited
<1>8. CASE GrowStale(m)
  BY <1>8 DEF GrowStale, NothingLost
<1>9. CASE Replay(m)
  <2>1. /\ copies' = [copies EXCEPT ![m] = @ + 1]
        /\ UNCHANGED <<posted, storing, stored, stale, retrievals, replies, handled>>
    BY <1>9 DEF Replay
  <2>2. Kept'
    BY <1>4, <2>1 DEF Kept
  <2>3. ASSUME NEW o \in storing' \cup stored'
        PROVE  copies'[o] + retrievals'[o] > 0
    <3>1. o \in Message /\ copies[o] + retrievals[o] > 0
      BY <1>3, <1>4, <2>1, <2>3 DEF ContentIsAwaited
    <3>2. CASE o = m
      BY <1>3, <2>1, <3>1, <3>2
    <3>3. CASE o # m
      BY <1>3, <2>1, <3>1, <3>3
    <3> QED BY <3>2, <3>3
  <2> QED BY <1>2, <1>4, <2>1, <2>2, <2>3 DEF Lossless, ContentIsAwaited
<1> QED BY <1>5, <1>6, <1>7, <1>8, <1>9 DEF Carry

LEMMA HandledLossless ==
  ASSUME NothingLost, Inv, Inv', Lossless, NEW m \in Message, HandleResponse(m)
  PROVE  Lossless'
<1> DEFINE r == m[1]
<1>1. /\ Receive(m) /\ UNCHANGED <<script, posted, storing, stored, stale, copies, retrievals>>
      /\ r \in Request /\ m = <<r, m[2]>> /\ m[2] \in 1..MaxResponses
  BY MessageFacts DEF HandleResponse
<1>2. /\ \A o \in Message : handled'[o] + replies'[o] = handled[o] + replies[o]
      /\ \A o \in Message : o # m => handled'[o] = handled[o]
  BY <1>1, ReceiveFacts
<1>3. /\ \A q \in Request : outcome'[q] # "unsent" => outcome[q] # "unsent"
      /\ callbacks' \subseteq callbacks
      /\ Kind[r] # "multiple" => r \notin callbacks'
  <2>1. CASE r \in callbacks
    <3>1. outcome[r] # "unsent"
      BY <1>1, <2>1 DEF Inv, Linked
    <3>2. outcome' = outcome \/ outcome' = [outcome EXCEPT ![r] = "answered"]
      BY <2>1 DEF HandleResponse
    <3>3. \A q \in Request : outcome'[q] # "unsent" => outcome[q] # "unsent"
      BY <1>1, <3>1, <3>2 DEF Inv, FrameTypeOK
    <3> QED BY <2>1, <3>3 DEF HandleResponse
  <2>2. CASE r \notin callbacks
    BY <2>2 DEF HandleResponse, callers
  <2> QED BY <2>1, <2>2
<1>4. Listening'
  BY <1>1, <1>3 DEF Lossless, Listening
<1>5. Kept'
  <2>1. /\ handled \in [Message -> Nat] /\ replies \in [Message -> Nat]
        /\ handled' \in [Message -> Nat] /\ replies' \in [Message -> Nat]
    BY DEF Inv, FrameTypeOK, TransportTypeOK
  <2>2. \A o \in Message : replies[o] + handled[o] > 0 => replies'[o] + handled'[o] > 0
    BY <1>2, <2>1
  <2> QED BY <1>1, <2>2 DEF Lossless, Kept
<1>6. ContentIsAwaited'
  BY <1>1 DEF Lossless, ContentIsAwaited
<1>7. PromisesKept'
  <2> SUFFICES ASSUME NEW q \in Request, Kind[q] = "promise"
               PROVE  /\ handled'[<<q, 0>>] > 0 => posted'[<<q, 1>>] # Null
                      /\ handled'[<<q, 1>>] > 0 => q \notin callbacks'
    BY DEF PromisesKept
  <2>1. <<q, 0>> \in Message /\ <<q, 1>> \in Message /\ <<q, 0>> # m
    BY <1>1, MessageFacts
  <2>2. handled'[<<q, 0>>] > 0 => posted'[<<q, 1>>] # Null
    BY <1>1, <1>2, <2>1 DEF Lossless, PromisesKept
  <2>3. CASE q = r
    BY <1>3, <2>2, <2>3
  <2>4. CASE q # r
    BY <1>1, <1>2, <1>3, <2>1, <2>2, <2>4 DEF Lossless, PromisesKept
  <2> QED BY <2>3, <2>4
<1> QED BY <1>1, <1>4, <1>5, <1>6, <1>7 DEF Lossless

LEMMA ServedLossless ==
  ASSUME NothingLost, Inv, Inv', Lossless, NEW r \in Request, ReceiveRequest(r),
         NEW answers \in Seq(Content), Len(answers) <= 2, Respond(r, answers),
         Kind[r] = "promise" => Len(answers) = 1
  PROVE  Lossless'
<1>1. Receive(<<r, 0>>) /\ <<r, 0>> \in Message
      /\ UNCHANGED <<script, stored, stale, retrievals, callbacks, outcome>>
  BY MessageFacts DEF ReceiveRequest, callers
<1>2. /\ \A o \in Message : handled'[o] + replies'[o] = handled[o] + replies[o]
      /\ \A o \in Message : o # <<r, 0>> => handled'[o] = handled[o]
  BY <1>1, ReceiveFacts
<1>3. Listening' /\ stale' = {}
  BY <1>1 DEF Lossless, Listening
<1>4. Kept' /\ ContentIsAwaited'
  BY <1>1, <1>2, PostKept DEF Respond, Lossless
<1>5. /\ Numbered(r, Len(answers))'
      /\ \A m \in Message : m[1] # r \/ m[2] = 0 => (posted'[m] # Null <=> posted[m] # Null)
  BY ServeFacts
<1>6. PromisesKept'
  <2> SUFFICES ASSUME NEW q \in Request, Kind[q] = "promise"
               PROVE  /\ handled'[<<q, 0>>] > 0 => posted'[<<q, 1>>] # Null
                      /\ handled'[<<q, 1>>] > 0 => q \notin callbacks'
    BY DEF PromisesKept
  <2>1. <<q, 0>> \in Message /\ <<q, 1>> \in Message
    BY MessageFacts
  <2>2. handled'[<<q, 1>>] > 0 => q \notin callbacks'
    BY <1>1, <1>2, <2>1 DEF Lossless, PromisesKept
  <2>3. CASE q = r
    <3>1. posted'[<<q, 1>>] # Null
      BY <1>5, <2>3, MessageFacts DEF Numbered
    <3> QED BY <2>2, <3>1
  <2>4. CASE q # r
    BY <1>2, <1>5, <2>1, <2>2, <2>4 DEF Lossless, PromisesKept
  <2> QED BY <2>3, <2>4
<1> QED BY <1>3, <1>4, <1>6 DEF Lossless

LEMMA SentLossless ==
  ASSUME NothingLost, Inv, Inv', Lossless, NEW r \in Request, SendRequest(r)
  PROVE  Lossless'
<1>1. /\ Post({<<r, 0>>}, [m \in {<<r, 0>>} |-> "request"])
      /\ UNCHANGED <<script, stored, stale, retrievals, replies, handled>>
      /\ outcome[r] = "unsent" /\ outcome' = [outcome EXCEPT ![r] = "waiting"]
      /\ callbacks' = callbacks \cup {r}
      /\ Sender[r] \in script /\ Target[r] \in script
  BY DEF SendRequest, NothingLost
<1>2. Listening' /\ stale' = {}
  BY <1>1 DEF Lossless, Listening, Inv, FrameTypeOK
<1>3. Kept' /\ ContentIsAwaited'
  BY <1>1, PostKept DEF Lossless
<1>4. posted[<<r, 0>>] = Null
  BY <1>1 DEF Inv, Linked
<1>5. handled[<<r, 0>>] = 0
  BY <1>4, MessageFacts DEF Inv, Tracked
<1>6. handled[<<r, 1>>] = 0
  <2>1. posted[<<r, 1>>] = Null
    BY <1>5, MessageFacts DEF Inv, Linked
  <2> QED BY <2>1, MessageFacts DEF Inv, Tracked
<1>7. PromisesKept'
  <2> SUFFICES ASSUME NEW q \in Request, Kind[q] = "promise"
               PROVE  /\ handled'[<<q, 0>>] > 0 => posted'[<<q, 1>>] # Null
                      /\ handled'[<<q, 1>>] > 0 => q \notin callbacks'
    BY DEF PromisesKept
  <2>1. <<q, 1>> \in Message /\ <<q, 1>> # <<r, 0>>
    BY MessageFacts
  <2>2. posted'[<<q, 1>>] = posted[<<q, 1>>]
    BY <1>1, <2>1 DEF Post
  <2> QED BY <1>1, <1>5, <1>6, <2>2 DEF Lossless, PromisesKept
<1> QED BY <1>2, <1>3, <1>7 DEF Lossless

LEMMA RespondedLossless ==
  ASSUME NothingLost, Inv, Inv', Lossless, NEW r \in Request, RespondLater(r)
  PROVE  Lossless'
<1>1. /\ UNCHANGED <<script, stored, stale, retrievals, replies, handled, callbacks, outcome>>
      /\ Respond(r, <<"value">>)
  BY DEF RespondLater, callers
<1>2. Listening' /\ stale' = {}
  BY <1>1 DEF Lossless, Listening
<1>3. Kept' /\ ContentIsAwaited'
  BY <1>1, PostKept DEF Respond, Lossless
<1>4. \A m \in Message : posted[m] # Null => posted'[m] # Null
  <2>1. PICK k \in 0..MaxResponses : Numbered(r, k)
    BY DEF Inv, Linked
  <2>2. k \in Nat /\ k + 1 <= MaxResponses
    BY <2>1, CountResponses, MessageFacts DEF RespondLater
  <2>3. <<"value">> \in Seq(Content) /\ Len(<<"value">>) = 1
    BY MessageFacts
  <2>4. PICK ms \in SUBSET Message : \E content \in [ms -> Content] :
          (\A m \in ms : posted[m] = Null) /\ Post(ms, content)
    BY <1>1, <2>1, <2>2, <2>3, RespondFacts
  <2> QED BY <2>4 DEF Post
<1>5. PromisesKept'
  BY <1>1, <1>4, MessageFacts DEF Lossless, PromisesKept
<1> QED BY <1>2, <1>3, <1>5 DEF Lossless

LEMMA LosslessStep ==
  ASSUME NothingLost, Inv, Inv', Lossless, [FrameNext]_vars
  PROVE  Lossless'
<1>1. CASE UNCHANGED vars
  BY <1>1 DEF vars, transport, callers, Lossless, Listening, Kept, ContentIsAwaited, PromisesKept
<1>2. ASSUME NEW m \in Message, Carry(m) \/ GrowStale(m) \/ Replay(m), UNCHANGED <<callers, listeners>>
      PROVE  Lossless'
  BY <1>2, CarriedLossless
<1>3. ASSUME NEW m \in Message, HandleResponse(m) PROVE Lossless'
  BY <1>3, HandledLossless
<1>4. ASSUME NEW r \in Request, RefuseRequest(r) PROVE Lossless'
  <2>1. <<"nothing">> \in Seq(Content) /\ Len(<<"nothing">>) = 1
    BY MessageFacts
  <2> QED BY <1>4, <2>1, ServedLossless DEF RefuseRequest
<1>5. ASSUME NEW r \in Request, ServePromise(r) PROVE Lossless'
  <2>1. PICK answer \in {"value", "nothing"} : Respond(r, <<answer>>)
    BY <1>5 DEF ServePromise
  <2>2. <<answer>> \in Seq(Content) /\ Len(<<answer>>) = 1
    BY MessageFacts
  <2> QED BY <1>5, <2>1, <2>2, ServedLossless DEF ServePromise
<1>6. ASSUME NEW r \in Request, ServeCallback(r) PROVE Lossless'
  <2>1. PICK answers \in {<<>>, <<"error">>, <<"value", "error">>} : Respond(r, answers)
    BY <1>6 DEF ServeCallback
  <2>2. answers \in Seq(Content) /\ Len(answers) <= 2
    <3>1. CASE answers = <<>>
      BY <3>1
    <3>2. CASE answers = <<"error">>
      BY <3>2, MessageFacts
    <3>3. CASE answers = <<"value", "error">>
      BY <3>3, MessageFacts
    <3> QED BY <2>1, <3>1, <3>2, <3>3
  <2>3. ReceiveRequest(r) /\ Kind[r] # "promise"
    BY <1>6, CommunicationAssumption DEF ServeCallback
  <2> QED BY <2>1, <2>2, <2>3, ServedLossless
<1>7. ASSUME NEW w \in Window, Initialize(w) PROVE Lossless'
  BY <1>7 DEF Initialize, transport, callers, Lossless, Listening, Kept, ContentIsAwaited, PromisesKept
<1>8. ASSUME NEW w \in Window, Reload(w) PROVE Lossless'
  BY <1>8 DEF Reload, NothingLost
<1>9. ASSUME NEW r \in Request, SendRequest(r) PROVE Lossless'
  BY <1>9, SentLossless
<1>10. ASSUME NEW r \in Request, TimeOut(r) PROVE Lossless'
  <2>1. UNCHANGED <<script, transport, handled, callbacks>>
    BY <1>10 DEF TimeOut
  <2>2. \A q \in Request : outcome'[q] # "unsent" => outcome[q] # "unsent"
    BY <1>10 DEF TimeOut, Inv, FrameTypeOK
  <2> QED BY <2>1, <2>2 DEF transport, Lossless, Listening, Kept, ContentIsAwaited, PromisesKept
<1>11. ASSUME NEW r \in Request, FinishListener(r) PROVE Lossless'
  BY <1>11 DEF FinishListener, transport, callers, Lossless, Listening, Kept, ContentIsAwaited,
               PromisesKept
<1>12. ASSUME NEW r \in Request, RespondLater(r) PROVE Lossless'
  BY <1>12, RespondedLossless
<1> QED BY <1>1, <1>2, <1>3, <1>4, <1>5, <1>6, <1>7, <1>8, <1>9, <1>10, <1>11, <1>12
        DEF FrameNext, Progress

LEMMA LosslessInvariance ==
  ASSUME NothingLost
  PROVE  FrameSpec => []Lossless
<1>1. Inv /\ Inv' /\ Lossless /\ [FrameNext]_vars => Lossless'
  BY LosslessStep
<1> QED BY <1>1, InitLossless, Invariance, PTL DEF FrameSpec

\* Unless a message is lost, nothing is left behind in the background page's
\* repository: somebody is still going to ask for every content in it.
THEOREM FrameContentsAreAwaited ==
  ASSUME Event \cap {"overtaken", "stale", "reload", "unready"} = {}
  PROVE  FrameSpec => []ContentIsAwaited
<1>1. NothingLost
  BY DEF NothingLost
<1>2. Lossless => ContentIsAwaited
  BY DEF Lossless
<1> QED BY <1>1, <1>2, LosslessInvariance, PTL

\* Unless a message is lost, the callback of a promise is registered only as long as
\* its request or the response to it is under way, whatever the page replays and
\* however slow the listeners.
THEOREM FrameCallbacksAreAwaited ==
  ASSUME Event \cap {"overtaken", "stale", "reload", "unready"} = {}
  PROVE  FrameSpec => []CallbackIsAwaited
<1>1. NothingLost
  BY DEF NothingLost
<1>2. ASSUME Inv, Lossless, NEW r \in callbacks, Kind[r] = "promise"
      PROVE  Underway(<<r, 0>>) \/ Underway(<<r, 1>>)
  <2>1. r \in Request /\ <<r, 0>> \in Message /\ <<r, 1>> \in Message
    BY <1>2, MessageFacts DEF Inv, FrameTypeOK
  <2>2. \A m \in Message : posted[m] # Null /\ ~(handled[m] > 0) => Underway(m)
    <3>1. handled \in [Message -> Nat] /\ replies \in [Message -> Nat]
      BY <1>2 DEF Inv, FrameTypeOK, TransportTypeOK
    <3> QED BY <1>2, <3>1 DEF Lossless, Kept, ContentIsAwaited, Underway
  <2>3. posted[<<r, 0>>] # Null
    BY <1>2, <2>1 DEF Inv, Linked
  <2>4. CASE handled[<<r, 0>>] > 0
    <3>1. posted[<<r, 1>>] # Null /\ ~(handled[<<r, 1>>] > 0)
      BY <1>2, <2>1, <2>4 DEF Lossless, PromisesKept
    <3> QED BY <2>1, <2>2, <3>1
  <2> QED BY <2>1, <2>2, <2>3, <2>4
<1>3. Inv /\ Lossless => CallbackIsAwaited
  BY <1>2 DEF CallbackIsAwaited
<1> QED BY <1>1, <1>3, Invariance, LosslessInvariance, PTL

=============================================================================
