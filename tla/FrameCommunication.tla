-------------------------- MODULE FrameCommunication --------------------------
(***************************************************************************)
(* Requests between the windows of a target page and the answers to them:  *)
(* the respondable command message communicator of each window's content   *)
(* script, with the two messengers built on it.  The frame messenger's     *)
(* callers await a promise, for thirty seconds; its listeners return one.  *)
(* axe-core's callers register a reply handler for one answer or several;  *)
(* its listener may answer as often as it likes.                           *)
(***************************************************************************)
EXTENDS WindowMessages, Sequences, FiniteSets

CONSTANTS
  Request,      \* identifiers of requests
  Command,      \* what may be requested through the frame messenger
  PostCommand,  \* axe-core's command
  Listener,     \* the window-command pairs that have a promise listener
  Parent,       \* the parent of each window, Null for the top window
  Sender,       \* of each request: the window that sends it,
  Target,       \* the window it is sent to,
  CommandOf,    \* its command,
  Kind,         \* and what its caller expects: "promise", "single" or "multiple"
  MaxResponses  \* bound: responses a request may get

ASSUME CommunicationAssumption ==
  /\ PostCommand \notin Command
  /\ Listener \subseteq Window \X Command
  /\ Parent \in [Window -> Window \cup {Null}]
  /\ Sender \in [Request -> Window]
  /\ Target \in [Request -> Window]
  /\ CommandOf \in [Request -> Command \cup {PostCommand}]
  /\ Kind \in [Request -> {"promise", "single", "multiple"}]
  /\ \A r \in Request : CommandOf[r] = PostCommand <=> Kind[r] # "promise"
  /\ MaxResponses \in Nat \ {0, 1}
  /\ Message = Request \X (0..MaxResponses)
  /\ \A r \in Request : Destination[<<r, 0>>] = Target[r]
  /\ \A r \in Request, n \in 1..MaxResponses : Destination[<<r, n>>] = Sender[r]
  /\ Content = {"request", "value", "nothing", "error"}

VARIABLES
  callbacks,   \* the requests whose response callback is registered
  outcome,     \* what has become of each request for its caller
  given,       \* the responses its promise or reply handler was given
  atWork,      \* the requests a listener is still busy with
  resolution   \* what the promise of a request's listener resolved with

callers == <<callbacks, outcome, given>>
listeners == <<atWork, resolution>>
vars == <<script, transport, handled, callers, listeners>>

\* A message is the request itself or one of the responses to it.
RequestMessage(r) == <<r, 0>>
ResponseMessage(r, n) == <<r, n>>
ResponsesPosted(r) == Cardinality({n \in 1..MaxResponses : posted[ResponseMessage(r, n)] # Null})

FrameInit ==
  /\ TransportInit
  /\ callbacks = {}
  /\ outcome = [r \in Request |-> "unsent"]
  /\ given = [r \in Request |-> <<>>]
  /\ atWork = {}
  /\ resolution = [r \in Request |-> Null]

-----------------------------------------------------------------------------
(* Windows.                                                                *)

\* The content script runs in a window: it listens to window messages, and its
\* listeners are registered before anything else can happen.
Initialize(w) ==
  /\ w \notin script
  /\ script' = script \cup {w}
  /\ UNCHANGED <<transport, handled, callers, listeners>>

\* A fault: callbacks outlive the document that registered them.
ReloadRemembering(w) ==
  /\ "reload" \in Event
  /\ w \in script
  /\ ForgetWindow(w)
  /\ outcome' = [r \in Request |-> IF Sender[r] = w /\ outcome[r] = "waiting"
                                   THEN "abandoned" ELSE outcome[r]]
  /\ atWork' = {r \in atWork : Target[r] # w}
  /\ UNCHANGED <<posted, storing, copies, handled, callbacks, given, resolution>>

\* The window loads another document.
Reload(w) ==
  /\ "reload" \in Event
  /\ w \in script
  /\ ForgetWindow(w)
  /\ callbacks' = {r \in callbacks : Sender[r] # w}
  /\ outcome' = [r \in Request |-> IF Sender[r] = w /\ outcome[r] = "waiting"
                                   THEN "abandoned" ELSE outcome[r]]
  /\ atWork' = {r \in atWork : Target[r] # w}
  /\ UNCHANGED <<posted, storing, copies, handled, given, resolution>>

-----------------------------------------------------------------------------
(* Callers.                                                                *)

\* sendCallbackCommandMessage; sendPromiseCommandMessage is a caller of it.
SendRequest(r) ==
  /\ Sender[r] \in script
  /\ Target[r] \in script \/ "unready" \in Event
  /\ outcome[r] = "unsent"
  /\ outcome' = [outcome EXCEPT ![r] = "waiting"]
  /\ callbacks' = callbacks \cup {r}
  /\ Post({RequestMessage(r)}, [m \in {RequestMessage(r)} |-> "request"])
  /\ UNCHANGED <<script, stored, stale, retrievals, replies, handled, given, listeners>>

\* The promise is rejected; the callback stays registered.
TimeOut(r) ==
  /\ Kind[r] = "promise"
  /\ outcome[r] = "waiting"
  /\ outcome' = [outcome EXCEPT ![r] = "timedOut"]
  /\ UNCHANGED <<script, transport, handled, callbacks, given, listeners>>

\* Whether a response of this content gets past the registered callback.  A promise
\* that has been rejected stays so; axe-core's callback fails on an empty payload.
Reaches(r, content) ==
  IF Kind[r] = "promise" THEN outcome[r] = "waiting" ELSE content # "nothing"

\* A fault: no callback removes itself.
HandleResponseKeeping(m) ==
  LET r == m[1] IN
  /\ m[2] # 0
  /\ Receive(m)
  /\ IF r \in callbacks /\ Reaches(r, posted[m])
     THEN /\ given' = [given EXCEPT ![r] = Append(@, m)]
          /\ outcome' = IF Kind[r] = "multiple" THEN outcome
                        ELSE [outcome EXCEPT ![r] = "answered"]
     ELSE UNCHANGED <<given, outcome>>
  /\ UNCHANGED <<callbacks, script, posted, storing, stored, stale, copies, retrievals, listeners>>

\* onResponseMessage.  The callback of a request that expects one answer removes
\* itself first; without a callback the response is ignored.
HandleResponse(m) ==
  LET r == m[1] IN
  /\ m[2] # 0
  /\ Receive(m)
  /\ IF r \in callbacks
     THEN /\ callbacks' = IF Kind[r] = "multiple" THEN callbacks ELSE callbacks \ {r}
          /\ IF Reaches(r, posted[m])
             THEN /\ given' = [given EXCEPT ![r] = Append(@, m)]
                  /\ outcome' = IF Kind[r] = "multiple" THEN outcome
                                ELSE [outcome EXCEPT ![r] = "answered"]
             ELSE UNCHANGED <<given, outcome>>
     ELSE UNCHANGED callers
  /\ UNCHANGED <<script, posted, storing, stored, stale, copies, retrievals, listeners>>

-----------------------------------------------------------------------------
(* Listeners.                                                              *)

\* The response callback made for r, called with each of the answers in turn.
Respond(r, answers) ==
  LET before == ResponsesPosted(r)
      new == {ResponseMessage(r, before + i) : i \in 1..Len(answers)}
  IN  Post(new, [m \in new |-> answers[m[2] - before]])

ReceiveRequest(r) ==
  /\ Receive(RequestMessage(r))
  /\ UNCHANGED <<script, stored, stale, retrievals, callers>>

\* Nobody listens to the command: an empty response says so.
RefuseRequest(r) ==
  /\ CommandOf[r] # PostCommand
  /\ <<Target[r], CommandOf[r]>> \notin Listener
  /\ ReceiveRequest(r)
  /\ Respond(r, <<"nothing">>)
  /\ UNCHANGED listeners

\* A fault: a listener that resolves with nothing sends nothing.
ServePromiseSilently(r) ==
  /\ <<Target[r], CommandOf[r]>> \in Listener
  /\ ReceiveRequest(r)
  /\ \E resolved \in {"value", "nothing"} :
       /\ resolution' = [resolution EXCEPT ![r] = resolved]
       /\ Respond(r, IF resolved = "value" THEN <<"value">> ELSE <<>>)
  /\ UNCHANGED atWork

\* A promise listener is called.  If its promise is resolved already, or rejected,
\* the response tells; if the listener takes its time, nobody waits for it and
\* the response is empty.
ServePromise(r) ==
  /\ <<Target[r], CommandOf[r]>> \in Listener
  /\ ReceiveRequest(r)
  /\ \/ \E resolved \in {"value", "nothing"} :
          /\ resolution' = [resolution EXCEPT ![r] = resolved]
          /\ Respond(r, <<resolved>>)
          /\ UNCHANGED atWork
     \/ /\ Respond(r, <<"nothing">>)
        /\ UNCHANGED listeners
     \/ /\ "slow" \in Event
        /\ Respond(r, <<"nothing">>)
        /\ atWork' = atWork \cup {r}
        /\ UNCHANGED resolution

\* The promise of a slow listener settles, and the result is dropped.
FinishListener(r) ==
  /\ r \in atWork
  /\ Kind[r] = "promise"
  /\ atWork' = atWork \ {r}
  /\ \E resolved \in {"value", "nothing", Null} :
       resolution' = [resolution EXCEPT ![r] = resolved]
  /\ UNCHANGED <<script, transport, handled, callers>>

\* axe-core's listener is called: it ignores windows other than the parent, keeps
\* the responder for later, or throws, perhaps after it has responded.
ServeCallback(r) ==
  /\ CommandOf[r] = PostCommand
  /\ ReceiveRequest(r)
  /\ IF Sender[r] # Parent[Target[r]]
     THEN Respond(r, <<>>) /\ UNCHANGED atWork
     ELSE \/ \E answers \in {<<"error">>, <<"value", "error">>} :
               Respond(r, answers) /\ UNCHANGED atWork
          \/ Respond(r, <<>>) /\ atWork' = atWork \cup {r}
  /\ UNCHANGED resolution

\* axe-core calls the responder it kept.
RespondLater(r) ==
  /\ r \in atWork
  /\ Kind[r] # "promise"
  /\ ResponsesPosted(r) < MaxResponses
  /\ Respond(r, <<"value">>)
  /\ UNCHANGED <<script, stored, stale, retrievals, replies, handled, callers, listeners>>

-----------------------------------------------------------------------------

\* A message is carried on by the browser and the background page, or handled by
\* the window it has reached.
Progress ==
  \/ \E m \in Message : Carry(m) /\ UNCHANGED <<callers, listeners>>
  \/ \E m \in Message : HandleResponse(m)
  \/ \E r \in Request : RefuseRequest(r) \/ ServePromise(r) \/ ServeCallback(r)

FrameNext ==
  \/ Progress
  \/ \E m \in Message : (GrowStale(m) \/ Replay(m)) /\ UNCHANGED <<callers, listeners>>
  \/ \E w \in Window : Initialize(w) \/ Reload(w)
  \/ \E r \in Request :
       SendRequest(r) \/ TimeOut(r) \/ FinishListener(r) \/ RespondLater(r)

FrameSpec == FrameInit /\ [][FrameNext]_vars

\* Every message is carried on and handled: the browser starves none.
Delivery ==
  /\ \A m \in Message :
       /\ WF_vars(StoreContent(m) /\ UNCHANGED <<callers, listeners>>)
       /\ WF_vars(ReceiveIdentifier(m) /\ UNCHANGED <<callers, listeners>>)
       /\ WF_vars(PopContent(m) /\ UNCHANGED <<callers, listeners>>)
       /\ WF_vars(HandleResponse(m))
  /\ \A r \in Request :
       /\ WF_vars(RefuseRequest(r))
       /\ WF_vars(ServePromise(r))
       /\ WF_vars(ServeCallback(r))

DeliverySpec == FrameSpec /\ Delivery

-----------------------------------------------------------------------------
(* Properties.                                                             *)

FrameTypeOK ==
  /\ TransportTypeOK
  /\ callbacks \subseteq Request
  /\ outcome \in [Request -> {"unsent", "waiting", "answered", "timedOut", "abandoned"}]
  /\ given \in [Request -> Seq(Message)]
  /\ atWork \subseteq Request
  /\ resolution \in [Request -> {"value", "nothing", Null}]

\* The communication implements remote calls that are served at most once and
\* answered at most once, by the answer to them and in time.
Calls == INSTANCE RemoteCalls WITH
  Patient <- {r \in Request : Kind[r] = "multiple"},
  Deadlined <- {r \in Request : Kind[r] = "promise"},
  phase <- outcome,
  served <- {r \in Request : handled[RequestMessage(r)] > 0},
  answers <- [r \in Request |-> Len(given[r])]
RemoteCallSpec == Calls!Spec

\* Somebody will ask for the content of m, or it is on its way to those who did.
Underway(m) ==
  \/ m \in storing \cup stored /\ copies[m] + retrievals[m] > 0
  \/ replies[m] > 0

\* As long as the callback of a promise is registered its answer is to be expected:
\* the request or the response to it is under way.  Replays do not get in its way
\* and listeners cannot hold it up.  It takes a lost message to leave a callback
\* registered for ever.
CallbackIsAwaited ==
  \A r \in callbacks :
    Kind[r] = "promise" => Underway(RequestMessage(r)) \/ Underway(ResponseMessage(r, 1))

\* A content in the background page's repository, or on its way there, is still
\* going to be asked for: nothing is left behind, since nothing else removes it.
ContentIsAwaited == \A m \in storing \cup stored : copies[m] + retrievals[m] > 0

\* addPromiseCommandMessageListener: the response the listener resolves with is the
\* value the caller's promise resolves with.
AnswerIsTheListeners ==
  \A r \in Request :
    Kind[r] = "promise" /\ outcome[r] = "answered" /\ resolution[r] = "value"
      => posted[Head(given[r])] = "value"

\* Every promise's callback is called and thereby removed, unless a message is lost.
CallbackReleased ==
  \A r \in Request : r \in callbacks /\ Kind[r] = "promise" ~> r \notin callbacks

=============================================================================
