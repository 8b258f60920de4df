------------------------------- MODULE LiveFeed --------------------------------
(***************************************************************************)
(* The live feed of the dashboard: the hub and a browser page, whose hook  *)
(* useWebSocket dials a connection and, whenever it closes, the next one.  *)
(* Each visit of the page has a hook of its own, which goes on dialling    *)
(* when the page is gone.                                                  *)
(* The hook parses one JSON document from each frame and puts it into the  *)
(* state lastMessage; React renders later, once for all that was set       *)
(* since; the page's effect then puts the message at the head of its list  *)
(* of events.  The page's first request for stored events replaces that    *)
(* list when its answer arrives: the search service's answer is an object, *)
(* not an array, so by an empty list.                                      *)
(***************************************************************************)
EXTENDS WebsocketHub

CONSTANT FeedCap  \* how many events the page keeps: 50

ASSUME FeedAssumption == FeedCap \in Nat \ {0}

VARIABLES
  visit,    \* how often the page was mounted: the number of its last visit
  mounted,  \* the page is there
  hook,     \* the visit whose hook dialled each connection, 0 when none did
  current,  \* the connection in the socketRef of the page that is there, a set of one
  ready,    \* the browser's end of each connection
  timers,   \* the visits whose hooks have the three seconds before a connection running
  inbox,    \* frames that reached the browser, onmessage has not run for
  handled,  \* how many messages were in the frames it has run for
  last,     \* the state lastMessage, 0 when there is none
  fresh,    \* lastMessage was set and not rendered yet
  feed,     \* the page's list of events, newest first
  seen,     \* every message that was ever put into the list
  fetching  \* the page's first request for stored events is under way

socketVars == <<hook, current, ready, timers>>
listVars == <<last, fresh, feed, seen, fetching>>
feedVars == <<vars, visit, mounted, socketVars, inbox, handled, listVars>>

FeedInit ==
  /\ Init
  /\ visit = 0
  /\ mounted = FALSE
  /\ hook = [c \in Conns |-> 0]
  /\ current = {}
  /\ ready = [c \in Conns |-> "none"]
  /\ timers = {}
  /\ inbox = [c \in Conns |-> <<>>]
  /\ handled = [c \in Conns |-> 0]
  /\ last = 0
  /\ fresh = FALSE
  /\ feed = <<>>
  /\ seen = {}
  /\ fetching = FALSE

Accepted == {c \in Conns : stage[c] # "none"}

\* The connections the browser has dialled and that have not ended for it.
Going == {c \in Conns : ready[c] \in {"up", "closing"}}

\* A step of the API, which upgrades what the browser has dialled.  A frame written to
\* a peer that is there arrives whole.
HubStep ==
  /\ Next
  /\ Accepted' \ Accepted \subseteq Going
  /\ inbox' = [c \in Conns |->
       IF wire'[c] # wire[c] /\ conn[c] = "open" THEN Append(inbox[c], frame[c]) ELSE inbox[c]]
  /\ UNCHANGED <<visit, mounted, socketVars, handled, listVars>>

--------------------------------------------------------------------------------
\* The hook.  It runs its effect and its cleanup once a visit, as in a production build.

\* connect, in the hook of visit v.
Dial(v, c) ==
  /\ ready[c] = "none"
  /\ ready' = [ready EXCEPT ![c] = "up"]
  /\ hook' = [hook EXCEPT ![c] = v]

\* The page comes, or comes back: with new state, new refs and its first request.
Mount ==
  /\ ~mounted
  /\ mounted' = TRUE
  /\ visit' = visit + 1
  /\ \E c \in Conns : Dial(visit + 1, c) /\ current' = {c}
  /\ fetching' = TRUE
  /\ UNCHANGED <<vars, timers, inbox, handled, last, fresh, feed, seen>>

\* The timer of a hook fires, whether or not its page is still there.  Nothing reads the
\* socketRef of a visit that is over.
Reconnect(v) ==
  /\ v \in timers
  /\ timers' = timers \ {v}
  /\ \E c \in Conns :
       /\ Dial(v, c)
       /\ current' = IF mounted /\ v = visit THEN {c} ELSE current
  /\ UNCHANGED <<vars, visit, mounted, inbox, handled, listVars>>

\* A close event that leaves a dialling that failed at that.
OnCloseOnceOpen(c) ==
  /\ c \in Going
  /\ conn[c] # "open"
  /\ inbox[c] = <<>>
  /\ ready' = [ready EXCEPT ![c] = "closed"]
  /\ timers' = IF c \in Accepted THEN timers \cup {hook[c]} ELSE timers
  /\ UNCHANGED <<vars, visit, mounted, hook, current, inbox, handled, listVars>>

\* onclose: the connection has ended, or could not be made (onerror closes it too).
\* It comes after the frames that came before.
OnClose(c) ==
  /\ c \in Going
  /\ conn[c] # "open"
  /\ inbox[c] = <<>>
  /\ ready' = [ready EXCEPT ![c] = "closed"]
  /\ timers' = timers \cup {hook[c]}
  /\ UNCHANGED <<vars, visit, mounted, hook, current, inbox, handled, listVars>>

\* The cleanup: close what socketRef has, and clear the timer that runs by now.  The
\* close event, and the timer it starts, are still to come.  A connection that is
\* closing delivers no more messages, and React forgets the page's state.
Unmount ==
  /\ mounted
  /\ mounted' = FALSE
  /\ timers' = timers \ {visit}
  /\ current' = {}
  /\ ready' = [c \in Conns |-> IF c \in current /\ ready[c] = "up" THEN "closing" ELSE ready[c]]
  /\ inbox' = [c \in Conns |-> IF c \in current THEN <<>> ELSE inbox[c]]
  /\ last' = 0 /\ fresh' = FALSE
  /\ feed' = <<>> /\ seen' = {} /\ fetching' = FALSE
  /\ UNCHANGED <<vars, visit, hook, handled>>

\* JSON.parse takes a frame that is one document.
ParsesAsOne(f) == Len(f) = 1

\* onmessage.  The hook of a visit that is over sets a state nobody renders.
OnMessage(c) ==
  /\ inbox[c] # <<>>
  /\ inbox' = [inbox EXCEPT ![c] = Tail(@)]
  /\ handled' = [handled EXCEPT ![c] = @ + Len(Head(inbox[c]))]
  /\ IF ready[c] = "up" /\ mounted /\ hook[c] = visit /\ ParsesAsOne(Head(inbox[c]))
     THEN last' = Head(inbox[c])[1] /\ fresh' = TRUE
     ELSE UNCHANGED <<last, fresh>>
  /\ UNCHANGED <<vars, visit, mounted, socketVars, feed, seen, fetching>>

--------------------------------------------------------------------------------
\* The page.

\* setEvents(prev => [newEvent, ...prev].slice(0, 50))
ListLast ==
  LET grown == <<last>> \o feed
  IN  /\ feed' = SubSeq(grown, 1, IF Len(grown) < FeedCap THEN Len(grown) ELSE FeedCap)
      /\ seen' = seen \cup {last}

\* An effect without its dependency: it runs whenever the page renders.
RenderAlways ==
  /\ mounted
  /\ last # 0
  /\ fresh' = FALSE
  /\ ListLast
  /\ UNCHANGED <<vars, visit, mounted, socketVars, inbox, handled, last, fetching>>

\* React renders and runs the effect of lastMessage, which has changed.
Render ==
  /\ fresh
  /\ fresh' = FALSE
  /\ ListLast
  /\ UNCHANGED <<vars, visit, mounted, socketVars, inbox, handled, last, fetching>>

\* The requests of the first effect are answered, or one of them fails.
FetchReturns ==
  /\ mounted
  /\ fetching
  /\ fetching' = FALSE
  /\ feed' \in {feed, <<>>}
  /\ UNCHANGED <<vars, visit, mounted, socketVars, inbox, handled, last, fresh, seen>>

FeedNext ==
  \/ HubStep
  \/ Mount
  \/ \E v \in timers : Reconnect(v)
  \/ Unmount
  \/ \E c \in Conns : OnClose(c) \/ OnMessage(c)
  \/ Render
  \/ FetchReturns

FeedSpec == FeedInit /\ [][FeedNext]_feedVars

--------------------------------------------------------------------------------

\* The page lists what the hub has sent to it, newest first and each event once:
\* through the hub's queue, the frames, the late rendering, the first fetch, from one
\* connection to the next, and beside the connections that earlier visits left behind.
NewestFirst ==
  /\ \A i, j \in 1..Len(feed) : i < j => feed[i] > feed[j]
  /\ \A i \in 1..Len(feed) :
       \E c \in Conns : hook[c] = visit /\ \E k \in 1..handled[c] : feed[i] = wire[c][k]

\* The connections of one visit follow one another: while the page is there one is up or
\* about to be dialled, and never has a visit two, each of which would bring the same
\* events.  (Of all visits together there may be several: the close event that follows
\* the cleanup dials the next connection of a page that is gone, and so on for ever.)
OneForEachVisit ==
  /\ mounted => visit \in timers \/ \E c \in Going : hook[c] = visit
  /\ \A c \in Going : hook[c] \notin timers
  /\ \A c, d \in Going : hook[c] = hook[d] => c = d

\* "BroadcastEvent sends a CommonEvent to all connected clients"
\* (websocket.go:156), and the page lists the events it is sent: each message of a
\* frame that this visit's connections have handled is in the list, was there, or is
\* about to be.
EverySentEventIsListed ==
  mounted => \A c \in Conns : hook[c] = visit => \A i \in 1..handled[c] :
    \/ wire[c][i] \in seen
    \/ fresh /\ wire[c][i] = last

================================================================================
