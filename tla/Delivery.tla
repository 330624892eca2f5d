------------------------------ MODULE Delivery ------------------------------
(***************************************************************************)
(* A message on its way to the clients: publish, the listener's loop and   *)
(* the fan-out of app/redis/pubsub.py, and the callback of each client,    *)
(* _on_stream_message of app/websocket/handler.py.                         *)
(*                                                                         *)
(* The listener handles one message after the other.  For each it takes    *)
(* the callbacks of the channel, starts a send for every client and waits  *)
(* until all of them have ended; a send ends at the latest when            *)
(* wait_for(FANOUT_CALLBACK_TIMEOUT) cancels it.  Other coroutines run     *)
(* between the snapshot and the start of a send, and while sends wait.     *)
(*                                                                         *)
(* The websockets library writes the frame when the send starts and then   *)
(* waits while the client reads too slowly, so a send that is cancelled    *)
(* has been written; a send raises only when the connection is closed.     *)
(* What registering and unregistering go through is in module              *)
(* PubSubManager: here they are one step each.                             *)
(***************************************************************************)
EXTENDS Naturals, Sequences

CONSTANTS
  Client,
  Channel,
  Interest,                 \* Interest[c]: channels c may subscribe to
  FANOUT_CALLBACK_TIMEOUT,  \* in ticks of the clock
  MaxMessages,              \* bound on the messages published
  MaxErrors                 \* bound on the RedisErrors of the listener

ASSUME InterestAssumption == Interest \in [Client -> SUBSET Channel]
ASSUME BoundsAssumption ==
  FANOUT_CALLBACK_TIMEOUT \in Nat /\ MaxMessages \in Nat /\ MaxErrors \in Nat

VARIABLES
  callbacks,  \* callbacks[ch]: clients registered on ch
  listener,   \* "listening", or "sleeping" after a RedisError
  errors,     \* RedisErrors of the listener so far
  published,  \* messages so far; the n-th one has the id n
  queue,      \* messages on the listener's Redis connection
  sends,      \* the sends of the present fan-out that have not ended
  elapsed,    \* how long the present fan-out has taken
  open,       \* clients whose connection is open
  stalled,    \* clients whose connection takes no more for now
  sendErrors, \* sendErrors[c]: _consecutive_send_errors
  received,   \* received[c]: ids of the messages written to c's connection
  wanted,     \* wanted[c]: channels c is subscribed to
  owed,       \* owed[c]: messages queued while c was subscribed, not written yet
  late        \* late[c][ch]: messages of ch written to c since c left ch

serverVars == <<callbacks, listener, errors>>
messageVars == <<published, queue>>
fanoutVars == <<sends, elapsed>>
socketVars == <<open, stalled>>
ghostVars == <<wanted, owed, late>>
vars == <<serverVars, messageVars, fanoutVars, socketVars, sendErrors, received, ghostVars>>

Message == [id : 1..MaxMessages, channel : Channel]

(***************************************************************************)
(* A send is created with the fan-out; once the frame is written it may    *)
(* wait.                                                                   *)
(***************************************************************************)
Send ==
  [client : Client, message : Message, stage : {"created", "waiting"},
   age : 0..FANOUT_CALLBACK_TIMEOUT]

NewSend(c, m) == [client |-> c, message |-> m, stage |-> "created", age |-> 0]

Init ==
  /\ callbacks = [ch \in Channel |-> {}]
  /\ listener = "listening" /\ errors = 0
  /\ published = 0 /\ queue = <<>>
  /\ sends = {} /\ elapsed = 0
  /\ open = Client /\ stalled = {}
  /\ sendErrors = [c \in Client |-> 0]
  /\ received = [c \in Client |-> <<>>]
  /\ wanted = [c \in Client |-> {}]
  /\ owed = [c \in Client |-> {}]
  /\ late = [c \in Client |-> [ch \in Channel |-> 0]]

(***************************************************************************)
(* publish.  Redis hands the message to the listener's connection when the *)
(* process has a client on the channel; while the listener is without a    *)
(* connection, or when PUBLISH raises, the message is gone.                *)
(***************************************************************************)
Publish(ch) ==
  /\ published < MaxMessages
  /\ published' = published + 1
  /\ IF listener = "listening" /\ callbacks[ch] # {}
     THEN LET m == [id |-> published + 1, channel |-> ch]
          IN  /\ queue' = Append(queue, m)
              /\ owed' = [c \in Client |->
                            IF c \in callbacks[ch] THEN owed[c] \cup {m} ELSE owed[c]]
     ELSE UNCHANGED <<queue, owed>>
  /\ UNCHANGED <<serverVars, fanoutVars, socketVars, sendErrors, received, wanted, late>>

PublishFails ==
  /\ published < MaxMessages
  /\ published' = published + 1
  /\ UNCHANGED <<serverVars, queue, fanoutVars, socketVars, sendErrors, received, ghostVars>>

(***************************************************************************)
(* subscribe, unsubscribe and unsubscribe_client, as the handler calls     *)
(* them.                                                                   *)
(***************************************************************************)
Subscribe(c, ch) ==
  /\ c \in open /\ ch \in Interest[c] /\ c \notin callbacks[ch]
  /\ callbacks' = [callbacks EXCEPT ![ch] = @ \cup {c}]
  /\ wanted' = [wanted EXCEPT ![c] = @ \cup {ch}]
  /\ late' = [late EXCEPT ![c][ch] = 0]
  /\ UNCHANGED <<listener, errors, messageVars, fanoutVars, socketVars, sendErrors,
                 received, owed>>

Leaves(c, channels) ==
  /\ wanted' = [wanted EXCEPT ![c] = @ \ channels]
  /\ owed' = [owed EXCEPT ![c] = {m \in @ : m.channel \notin channels}]
  /\ UNCHANGED <<listener, errors, messageVars, fanoutVars, socketVars, sendErrors,
                 received, late>>

(***************************************************************************)
(* Mutant: the callback stays.                                             *)
(***************************************************************************)
UnsubscribeKeepsCallback(c, ch) ==
  /\ c \in open /\ c \in callbacks[ch]
  /\ UNCHANGED callbacks
  /\ Leaves(c, {ch})

Unsubscribe(c, ch) ==
  /\ c \in open /\ c \in callbacks[ch]
  /\ callbacks' = [callbacks EXCEPT ![ch] = @ \ {c}]
  /\ Leaves(c, {ch})

UnsubscribeClient(c) ==
  /\ c \notin open /\ wanted[c] # {}
  /\ callbacks' = [ch \in Channel |-> callbacks[ch] \ {c}]
  /\ Leaves(c, Channel)

(***************************************************************************)
(* _handle_message, up to gather.  It is called when the fan-out before it *)
(* has ended.  One mutant does not wait for that, the other leaves out the *)
(* clients that are slow.                                                  *)
(***************************************************************************)
AnyTime == TRUE

FanoutEnded == sends = {}

HandleMessageSkipsSlow ==
  /\ listener = "listening" /\ queue # <<>>
  /\ FanoutEnded
  /\ queue' = Tail(queue)
  /\ sends' = {NewSend(c, Head(queue)) : c \in callbacks[Head(queue).channel] \ stalled}
  /\ elapsed' = 0
  /\ UNCHANGED <<serverVars, published, socketVars, sendErrors, received, ghostVars>>

HandleMessage ==
  /\ listener = "listening" /\ queue # <<>>
  /\ FanoutEnded
  /\ queue' = Tail(queue)
  /\ sends' = sends \cup {NewSend(c, Head(queue)) : c \in callbacks[Head(queue).channel]}
  /\ elapsed' = 0
  /\ UNCHANGED <<serverVars, published, socketVars, sendErrors, received, ghostVars>>

(***************************************************************************)
(* A send can start as soon as it is created.  The mutant sends to one     *)
(* client after the other.                                                 *)
(***************************************************************************)
CanStartInTurn(s) == s.stage = "created" /\ \A t \in sends : t.stage = "created"

CanStart(s) == s.stage = "created"

Succeeds(c) == sendErrors' = [sendErrors EXCEPT ![c] = 0]

(***************************************************************************)
(* The counter ends at the threshold: then the handler closes the          *)
(* connection, which is closed already, and nothing else comes of it.      *)
(***************************************************************************)
Raises(c) == sendErrors' = [sendErrors EXCEPT ![c] = IF @ < 3 THEN @ + 1 ELSE @]

Write(s) ==
  LET c == s.client
      m == s.message
  IN  /\ received' = [received EXCEPT ![c] = Append(@, m.id)]
      /\ owed' = [owed EXCEPT ![c] = @ \ {m}]
      /\ late' = IF m.channel \in wanted[c]
                 THEN late
                 ELSE [late EXCEPT ![c][m.channel] = @ + 1]
      /\ UNCHANGED wanted

StartSend(s) ==
  /\ CanStart(s)
  /\ \/ /\ s.client \in open
        /\ Write(s)
        /\ IF s.client \in stalled
           THEN /\ sends' = (sends \ {s}) \cup {[s EXCEPT !.stage = "waiting"]}
                /\ UNCHANGED sendErrors
           ELSE /\ sends' = sends \ {s}
                /\ Succeeds(s.client)
     \/ /\ s.client \notin open
        /\ sends' = sends \ {s}
        /\ Raises(s.client)
        /\ UNCHANGED <<received, ghostVars>>
  /\ UNCHANGED <<serverVars, messageVars, elapsed, socketVars>>

SendEnds(s) ==
  /\ s.stage = "waiting" /\ s.client \notin stalled
  /\ sends' = sends \ {s}
  /\ IF s.client \in open THEN Succeeds(s.client) ELSE Raises(s.client)
  /\ UNCHANGED <<serverVars, messageVars, elapsed, socketVars, received, ghostVars>>

(***************************************************************************)
(* wait_for cancels the send.  CancelledError is no Exception: the handler *)
(* does not count it.  The mutant has no time-out.                         *)
(***************************************************************************)
TimesOutNever(s) == FALSE

TimesOut(s) ==
  /\ s.stage = "waiting" /\ s.age = FANOUT_CALLBACK_TIMEOUT
  /\ sends' = sends \ {s}
  /\ UNCHANGED <<serverVars, messageVars, elapsed, socketVars, sendErrors, received,
                 ghostVars>>

(***************************************************************************)
(* Time passes while sends wait: not before every send that can start has  *)
(* started, and not past a deadline.                                       *)
(***************************************************************************)
Waiting == {s \in sends : s.stage = "waiting"}

Tick ==
  /\ Waiting # {} /\ \A s \in sends : ~CanStart(s)
  /\ \A s \in Waiting : s.age < FANOUT_CALLBACK_TIMEOUT
  /\ sends' = {IF s \in Waiting THEN [s EXCEPT !.age = @ + 1] ELSE s : s \in sends}
  /\ elapsed' = elapsed + 1
  /\ UNCHANGED <<serverVars, messageVars, socketVars, sendErrors, received, ghostVars>>

(***************************************************************************)
(* The listener's connection to Redis breaks: what is on it is gone.  A    *)
(* second later it listens again, and the redis library has resubscribed.  *)
(***************************************************************************)
ListenerRedisError ==
  /\ listener = "listening" /\ sends = {} /\ errors < MaxErrors
  /\ errors' = errors + 1
  /\ listener' = "sleeping"
  /\ queue' = <<>>
  /\ owed' = [c \in Client |-> {}]
  /\ UNCHANGED <<callbacks, published, fanoutVars, socketVars, sendErrors, received,
                 wanted, late>>

ListenerResumes ==
  /\ listener = "sleeping"
  /\ listener' = "listening"
  /\ UNCHANGED <<callbacks, errors, messageVars, fanoutVars, socketVars, sendErrors,
                 received, ghostVars>>

(***************************************************************************)
(* The clients: one may stop reading, go on, or go away.                   *)
(***************************************************************************)
Sockets(nowOpen, nowStalled) ==
  /\ open' = nowOpen /\ stalled' = nowStalled
  /\ UNCHANGED <<serverVars, messageVars, fanoutVars, sendErrors, received, ghostVars>>

Stall(c) == c \in open \ stalled /\ Sockets(open, stalled \cup {c})
Unstall(c) == c \in open \cap stalled /\ Sockets(open, stalled \ {c})
Disconnect(c) == c \in open /\ Sockets(open \ {c}, stalled \ {c})

Environment ==
  \/ \E ch \in Channel : Publish(ch)
  \/ PublishFails
  \/ \E c \in Client, ch \in Channel : Subscribe(c, ch) \/ Unsubscribe(c, ch)
  \/ \E c \in Client : UnsubscribeClient(c) \/ Stall(c) \/ Unstall(c) \/ Disconnect(c)
  \/ ListenerRedisError

Fanout ==
  \/ HandleMessage
  \/ \E s \in sends : StartSend(s) \/ SendEnds(s) \/ TimesOut(s)
  \/ Tick
  \/ ListenerResumes

Next == Environment \/ Fanout

Spec == Init /\ [][Next]_vars

(***************************************************************************)
(* The event loop runs the listener and every send that can go on, timers  *)
(* fire, and the listener wakes up again: it has a channel left to listen  *)
(* to, or it would block the event loop (ListenEnds of PubSubManager).     *)
(* Nothing is assumed of the clients: one may never read again.            *)
(***************************************************************************)
FairSpec == Spec /\ WF_vars(Fanout)

-----------------------------------------------------------------------------

(***************************************************************************)
(* The type invariant.                                                     *)
(***************************************************************************)
TypeOK ==
  /\ callbacks \in [Channel -> SUBSET Client]
  /\ listener \in {"listening", "sleeping"} /\ errors \in 0..MaxErrors
  /\ published \in 0..MaxMessages /\ queue \in Seq(Message)
  /\ sends \subseteq Send /\ elapsed \in Nat
  /\ open \subseteq Client /\ stalled \subseteq Client
  /\ sendErrors \in [Client -> 0..3]
  /\ received \in [Client -> Seq(1..MaxMessages)]
  /\ wanted \in [Client -> SUBSET Channel]
  /\ owed \in [Client -> SUBSET Message]
  /\ late \in [Client -> [Channel -> Nat]]

(***************************************************************************)
(* A client gets messages in the order they were published, over all its   *)
(* channels, and none twice.                                               *)
(***************************************************************************)
InOrder ==
  \A c \in Client : \A i, j \in DOMAIN received[c] :
    i < j => received[c][i] < received[c][j]

(***************************************************************************)
(* What a connected client is owed is on its way to it: on the connection  *)
(* to Redis, or in a send that has been created.  No time-out, no error of *)
(* another client and no change of the callbacks drops it.                 *)
(***************************************************************************)
Queued == {queue[i] : i \in DOMAIN queue}

Created(c) == {s.message : s \in {t \in sends : t.client = c /\ t.stage = "created"}}

NothingIsDropped == \A c \in open : owed[c] \subseteq Queued \cup Created(c)

(***************************************************************************)
(* A client that has left a channel gets at most one more message of it:   *)
(* the one whose fan-out had taken the callbacks before.                   *)
(***************************************************************************)
AtMostOneLate == \A c \in Client : \A ch \in Channel : late[c][ch] <= 1

(***************************************************************************)
(* However many clients stall, a fan-out takes no longer than one time-out,*)
(* so that is how long the message after it waits.                         *)
(***************************************************************************)
FanoutIsBounded == elapsed <= FANOUT_CALLBACK_TIMEOUT

(***************************************************************************)
(* Failed sends are counted for closed connections only: a client that     *)
(* stalls is not closed for it, however often it times out, and costs      *)
(* every fan-out of its channels a time-out.                               *)
(***************************************************************************)
ErrorsMeanClosed == \A c \in Client : sendErrors[c] > 0 => c \notin open

(***************************************************************************)
(* What a client is owed is written to it, unless the client leaves or the *)
(* connection to Redis breaks, although another client may never read.     *)
(***************************************************************************)
OwedIsWritten ==
  \A c \in Client : \A m \in Message : m \in owed[c] ~> m \notin owed[c] \/ c \notin open

=============================================================================
