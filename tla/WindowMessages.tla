---------------------------- MODULE WindowMessages ----------------------------
(***************************************************************************)
(* How the content scripts of a page's windows send messages to one        *)
(* another.  A page can read and repeat what is posted to its windows, so  *)
(* the window message is only an opaque identifier.  The content goes to   *)
(* the background page, which keeps it until the addressee, having         *)
(* received the identifier, asks for it, and hands it out once.            *)
(*                                                                         *)
(* Both ways are asynchronous, from different processes, and independent.  *)
(***************************************************************************)
EXTENDS Naturals

CONSTANTS
  Window,       \* the windows of a page: the top one and its frames
  Message,      \* identifiers of messages; none is used twice
  Destination,  \* the window a message is posted to
  Content,      \* what messages may say
  Null,         \* "not posted yet"
  Event,        \* what may happen to the windows and on the way
  MaxCopies     \* bound: copies of a message's identifier under way at a time

\* "replay": the page posts an identifier again.  "overtaken": a content is asked
\* for before it has arrived.  "stale": more than a minute goes by.  "reload": a
\* window loads another document.  The others concern requests and their listeners.
AllEvents == {"replay", "overtaken", "stale", "reload", "unready", "slow"}

ASSUME MessageAssumption ==
  /\ Destination \in [Message -> Window]
  /\ Null \notin Content
  /\ Event \subseteq AllEvents
  /\ MaxCopies \in Nat \ {0}

VARIABLES
  script,      \* the windows whose content script has been initialized
  posted,      \* the content of each message that was posted
  storing,     \* contents on their way to the background page
  stored,      \* the content repository
  stale,       \* the contents in it that are more than a minute old
  copies,      \* identifiers on their way to their window
  retrievals,  \* requests for a content on their way to the background page
  replies,     \* contents on their way from there to the window
  handled      \* how often the listeners of the window were given the message

transport == <<posted, storing, stored, stale, copies, retrievals, replies>>

TransportInit ==
  /\ script = {}
  /\ posted = [m \in Message |-> Null]
  /\ storing = {}
  /\ stored = {}
  /\ stale = {}
  /\ copies = [m \in Message |-> 0]
  /\ retrievals = [m \in Message |-> 0]
  /\ replies = [m \in Message |-> 0]
  /\ handled = [m \in Message |-> 0]

-----------------------------------------------------------------------------
(* What others do with messages.                                           *)

\* postMessage, for each m in ms with content content[m].
Post(ms, content) ==
  /\ posted' = [m \in Message |-> IF m \in ms THEN content[m] ELSE posted[m]]
  /\ storing' = storing \cup ms
  /\ copies' = [m \in Message |-> IF m \in ms THEN copies[m] + 1 ELSE copies[m]]

PostNothing == UNCHANGED <<posted, storing, copies>>

\* The content of m reaches its window and is given to the listeners there.
Receive(m) ==
  /\ replies[m] > 0
  /\ replies' = [replies EXCEPT ![m] = @ - 1]
  /\ handled' = [handled EXCEPT ![m] = @ + 1]

\* What is addressed to the document that w shows is lost with it.  The background
\* page may or may not have seen the requests of that document.
ForgetWindow(w) ==
  /\ script' = script \ {w}
  /\ \E popped \in SUBSET {m \in stored : Destination[m] = w /\ retrievals[m] > 0} :
       /\ stored' = stored \ popped
       /\ stale' = stale \ popped
  /\ retrievals' = [m \in Message |-> IF Destination[m] = w THEN 0 ELSE retrievals[m]]
  /\ replies' = [m \in Message |-> IF Destination[m] = w THEN 0 ELSE replies[m]]

-----------------------------------------------------------------------------
(* The transport's own steps.                                              *)

\* The background page receives a content.
StoreContent(m) ==
  /\ m \in storing
  /\ storing' = storing \ {m}
  /\ stored' = stored \cup {m}
  /\ UNCHANGED <<script, posted, stale, copies, retrievals, replies, handled>>

\* A minute passes.
GrowStale(m) ==
  /\ "stale" \in Event
  /\ m \in stored \ stale
  /\ stale' = stale \cup {m}
  /\ UNCHANGED <<script, posted, storing, stored, copies, retrievals, replies, handled>>

\* A window receives an identifier and asks for the content; without a content
\* script nobody listens.
ReceiveIdentifier(m) ==
  /\ copies[m] > 0
  /\ copies' = [copies EXCEPT ![m] = @ - 1]
  /\ retrievals' = [retrievals EXCEPT ![m] = IF Destination[m] \in script THEN @ + 1 ELSE @]
  /\ UNCHANGED <<script, posted, storing, stored, stale, replies, handled>>

\* A fault: contents are kept for whoever may ask again.
PopContentKept(m) ==
  /\ retrievals[m] > 0
  /\ m \in storing => "overtaken" \in Event
  /\ retrievals' = [retrievals EXCEPT ![m] = @ - 1]
  /\ replies' = [replies EXCEPT ![m] = IF m \in stored \ stale THEN @ + 1 ELSE @]
  /\ UNCHANGED <<script, posted, storing, stored, stale, copies, handled>>

\* A fault: the age of a content outlives it.
PopContentAgeKept(m) ==
  /\ retrievals[m] > 0
  /\ m \in storing => "overtaken" \in Event
  /\ retrievals' = [retrievals EXCEPT ![m] = @ - 1]
  /\ replies' = [replies EXCEPT ![m] = IF m \in stored \ stale THEN @ + 1 ELSE @]
  /\ stored' = stored \ {m}
  /\ UNCHANGED <<script, posted, storing, stale, copies, handled>>

\* The background page hands out a content and forgets it.  If it does not have it,
\* or if it has become stale, the window gets an error and does nothing.
PopContent(m) ==
  /\ retrievals[m] > 0
  /\ m \in storing => "overtaken" \in Event
  /\ retrievals' = [retrievals EXCEPT ![m] = @ - 1]
  /\ replies' = [replies EXCEPT ![m] = IF m \in stored \ stale THEN @ + 1 ELSE @]
  /\ stored' = stored \ {m}
  /\ stale' = stale \ {m}
  /\ UNCHANGED <<script, posted, storing, copies, handled>>

\* The page repeats an identifier it has seen.
Replay(m) ==
  /\ "replay" \in Event
  /\ posted[m] # Null
  /\ copies[m] + retrievals[m] < MaxCopies
  /\ copies' = [copies EXCEPT ![m] = @ + 1]
  /\ UNCHANGED <<script, posted, storing, stored, stale, retrievals, replies, handled>>

Carry(m) == StoreContent(m) \/ ReceiveIdentifier(m) \/ PopContent(m)

TransportNext == \E m \in Message : Carry(m) \/ GrowStale(m) \/ Replay(m)

-----------------------------------------------------------------------------

TransportTypeOK ==
  /\ script \subseteq Window
  /\ posted \in [Message -> Content \cup {Null}]
  /\ storing \subseteq Message
  /\ stored \subseteq Message
  /\ stale \subseteq stored
  /\ copies \in [Message -> Nat]
  /\ retrievals \in [Message -> Nat]
  /\ replies \in [Message -> Nat]
  /\ handled \in [Message -> Nat]

\* Whatever a page replays and however requests for a content race with one
\* another, the listeners of a window are given a message at most once: the
\* background page forgets a content before it looks whether it may still be used.
HandledOnce == \A m \in Message : handled[m] <= 1

=============================================================================
