-------------------------------- MODULE Feeds --------------------------------
(***************************************************************************)
(* What the Pub/Sub manager, app/redis/pubsub.py, promises the handlers    *)
(* that call it.  Here a call is one step: there is no lock, no suspended  *)
(* call and no listener.  A client joins and quits channels; Redis feeds   *)
(* the channels that have clients.  Module PubSubManager implements this   *)
(* specification.                                                          *)
(***************************************************************************)
EXTENDS Naturals

CONSTANTS
  Client,  \* client ids
  Channel  \* Redis channels

VARIABLES
  clients,  \* clients[ch]: the clients that are called for a message on ch
  fed,      \* the channels that Redis feeds
  broken,   \* the channels whose last SUBSCRIBE raised
  open      \* the manager has a connection to Redis

vars == <<clients, fed, broken, open>>

Init ==
  /\ clients = [ch \in Channel |-> {}]
  /\ fed = {} /\ broken = {} /\ open = TRUE

(***************************************************************************)
(* A client joins a channel that is fed already.  A channel whose          *)
(* SUBSCRIBE raised is not tried again: the client joins it and hears      *)
(* nothing, as it does once the manager is closed.                         *)
(***************************************************************************)
Join(c, ch) ==
  /\ open => ch \in fed \cup broken
  /\ clients' = [clients EXCEPT ![ch] = @ \cup {c}]
  /\ UNCHANGED <<fed, broken, open>>

(***************************************************************************)
(* The first client of a channel has it fed, or gets an exception and is   *)
(* not on the channel.                                                     *)
(***************************************************************************)
JoinFirst(c, ch) ==
  /\ open /\ clients[ch] = {}
  /\ clients' = [clients EXCEPT ![ch] = {c}]
  /\ fed' = fed \cup {ch}
  /\ broken' = broken \ {ch}
  /\ UNCHANGED open

JoinRaises(ch) ==
  /\ clients[ch] = {}
  /\ broken' = broken \cup {ch}
  /\ UNCHANGED <<clients, fed, open>>

(***************************************************************************)
(* A client quits one channel, or all.  It is off them whether the call    *)
(* raises or not.                                                          *)
(***************************************************************************)
Quit(c, ch) ==
  /\ clients' = [clients EXCEPT ![ch] = @ \ {c}]
  /\ UNCHANGED <<fed, broken, open>>

QuitAll(c) ==
  /\ clients' = [ch \in Channel |-> clients[ch] \ {c}]
  /\ UNCHANGED <<fed, broken, open>>

(***************************************************************************)
(* The feed of a channel that has no client ends, sooner or later after    *)
(* the last one quit.                                                      *)
(***************************************************************************)
Drop(ch) ==
  /\ clients[ch] = {}
  /\ fed' = fed \ {ch}
  /\ UNCHANGED <<clients, broken, open>>

Close ==
  /\ open
  /\ open' = FALSE
  /\ clients' = [ch \in Channel |-> {}]
  /\ fed' = {}
  /\ UNCHANGED broken

Next ==
  \/ \E c \in Client, ch \in Channel : Join(c, ch) \/ JoinFirst(c, ch) \/ Quit(c, ch)
  \/ \E c \in Client : QuitAll(c)
  \/ \E ch \in Channel : JoinRaises(ch) \/ Drop(ch)
  \/ Close

Spec == Init /\ [][Next]_vars

-----------------------------------------------------------------------------
(***************************************************************************)
(* What the handlers may rely on                                           *)
(***************************************************************************)

(***************************************************************************)
(* At every moment, whatever calls are under way: a channel with a client  *)
(* is fed, unless its SUBSCRIBE raised.                                    *)
(***************************************************************************)
Heard == open => \A ch \in Channel : clients[ch] # {} => ch \in fed \cup broken

(***************************************************************************)
(* No call of one client cuts the feed of another: a channel that keeps a  *)
(* client through a step keeps its feed.                                   *)
(***************************************************************************)
FeedKept ==
  [][\A ch \in Channel :
       ch \in fed /\ clients[ch] \cap clients'[ch] # {} => ch \in fed']_vars

=============================================================================
